---- MODULE Spec2Model ----
(***************************************************************************)
(* Versioned publish and projection engine of ingestor-reader-v3.          *)
(*                                                                         *)
(* The object store is modelled by its four namespaces of one dataset:     *)
(* version data + version manifests, the staging area, the projection      *)
(* partitions and the projection manifest.  An object key below the        *)
(* staging / projection prefix is a relative path <<partition, filename>>; *)
(* a partition is <<series, year, month>>.  An object is a record          *)
(* [present, body] whose body is the list of data points it holds.         *)
(***************************************************************************)
EXTENDS Integers, Sequences, FiniteSets, TLC

\* ------------------------------------------------------------------ bounds
MaxVersions == 2      \* versions a behaviour may publish
MaxData     == 2      \* data points handed to one load
MaxFaults   == 2      \* object-store faults injected in one project_version call
MaxLen      == 2      \* records per record set handed to the merger
MaxLoads    == 3      \* load calls of a behaviour of the publish specification
PageSize    == 3      \* keys the store returns in one page of a listing
MaxWorkers  == 2      \* largest max_workers of a thread pool

\* ------------------------------------------------------------ value spaces
Series   == {"S1"}
ObsOrder == <<"2024-01-15", "2024-01-16", "2024-02-15">>     \* chronological
ObsTimes == {ObsOrder[i] : i \in 1..Len(ObsOrder)}
Rank(t)  == CHOOSE i \in 1..Len(ObsOrder) : ObsOrder[i] = t
Values   == {"A", "B"}

YearOf(t)  == 2024
MonthOf(t) == IF t = "2024-02-15" THEN 2 ELSE 1

NoneVal == "<None>"

DataPoints == [obs_time : ObsTimes, internal_series_code : Series, value : Values]

\* data points the loader is fed in this model: one value per observation time
LoadPoints == {r \in DataPoints : r.value = (IF r.obs_time = "2024-01-16" THEN "B" ELSE "A")}

VersionIds == 1..MaxVersions

\* partitions in the lexicographic order the store lists them
Parts == << <<"S1", 2024, 1>>, <<"S1", 2024, 2>> >>
PartSet == {Parts[i] : i \in 1..Len(Parts)}

JsonName == "data.json"

NoObj  == [present |-> FALSE, body |-> <<>>]
Obj(b) == [present |-> TRUE, body |-> b]

\* ------------------------------------------------ partition strategy / writer
\* SeriesYearMonthPartitionStrategy.get_partition_path
get_partition_path(r) == <<r.internal_series_code, YearOf(r.obs_time), MonthOf(r.obs_time)>>

\* SeriesYearMonthPartitionStrategy.group_by_partition: the points of one partition, in input order
group_by_partition(data, p) == SelectSeq(data, LAMBDA r : get_partition_path(r) = p)

\* ParquetWriter._generate_parquet_filename
_generate_parquet_filename(p) == "data.parquet"

FileNames == <<JsonName, "data.parquet">>      \* in listing order

\* every relative path of the model, in the order list_objects_v2 returns keys
AllKeys == [i \in 1..(2 * Len(Parts)) |-> <<Parts[(i + 1) \div 2], FileNames[((i - 1) % 2) + 1]>>]
KeySet  == {AllKeys[i] : i \in 1..Len(AllKeys)}

EmptyStore == [k \in KeySet |-> NoObj]

\* ParquetWriter.write_to_parquet: relative paths of the files written, in the
\* order the partitions first appear in the data
RECURSIVE PartsInOrder(_, _)
PartsInOrder(data, seen) ==
    IF data = <<>> THEN <<>>
    ELSE LET p == get_partition_path(Head(data))
         IN IF p \in seen THEN PartsInOrder(Tail(data), seen)
            ELSE <<p>> \o PartsInOrder(Tail(data), seen \cup {p})

write_to_parquet(data) ==
    LET ps == PartsInOrder(data, {})
    IN [i \in 1..Len(ps) |-> <<ps[i], _generate_parquet_filename(ps[i])>>]

SeqToSet(s) == {s[i] : i \in 1..Len(s)}

\* ------------------------------------------------------------ object store
\* list_objects_v2 under a prefix (StagingManager._list_s3_keys,
\* AtomicProjectionMover._list_s3_files)
_list_s3_keys(store) == SelectSeq(AllKeys, LAMBDA k : store[k].present)

\* variant of _copy_s3_object: the copy is added to an existing destination
_copy_s3_object_append(src, dst, skey, dkey) ==
    [dst EXCEPT ![dkey] = IF dst[dkey].present
                          THEN Obj(dst[dkey].body \o src[skey].body)
                          ELSE src[skey]]

\* copy_object: the destination takes the content of the source
_copy_s3_object(src, dst, skey, dkey) == [dst EXCEPT ![dkey] = src[skey]]

\* delete_object
_delete_s3_object(store, key) == [store EXCEPT ![key] = NoObj]

\* ---------------------------------------------------------- staging manager
\* StagingManager._build_staging_file_path: staging keeps the relative path
_build_staging_file_path(json_file) == json_file

\* StagingManager._get_partition_path_from_relative: strip the file name
_get_partition_path_from_relative(rel) == rel[1]

\* StagingManager.list_staging_partitions: sorted unique partitions of the staging keys
list_staging_partitions(stg) ==
    SelectSeq(Parts, LAMBDA p : \E k \in KeySet :
                  stg[k].present /\ _get_partition_path_from_relative(k) = p)

\* ------------------------------------------------------- projection merger
\* ProjectionMerger._build_staging_file_key / _build_projections_file_key
_build_staging_file_key(p)     == <<p, JsonName>>
_build_projections_file_key(p) == <<p, JsonName>>

\* dedup key of _merge_json_data: falsy fields collapse to None
MergeKey(item) ==
    << IF item.obs_time \in {"", NoneVal} THEN NoneVal ELSE item.obs_time,
       IF item.internal_series_code \in {"", NoneVal} THEN NoneVal ELSE item.internal_series_code >>

\* the loop of _merge_json_data over the combined list
RECURSIVE DedupLoop(_, _, _)
DedupLoop(combined, seen, merged) ==
    IF combined = <<>> THEN merged
    ELSE LET item == Head(combined)
             key  == MergeKey(item)
         IN IF key \notin seen
            THEN DedupLoop(Tail(combined), seen \cup {key}, Append(merged, item))
            ELSE DedupLoop(Tail(combined), seen, merged)

\* variant of _merge_json_data: the lists are combined staging-then-projection
_merge_json_data_staging_first(projections_data, staging_data) ==
    IF ~projections_data.present /\ ~staging_data.present THEN <<>>
    ELSE IF ~projections_data.present THEN staging_data.body
    ELSE IF ~staging_data.present THEN projections_data.body
    ELSE DedupLoop(staging_data.body \o projections_data.body, {}, <<>>)

\* ProjectionMerger._merge_json_data; an absent input (None) is an object that is not present
_merge_json_data(projections_data, staging_data) ==
    IF ~projections_data.present /\ ~staging_data.present THEN <<>>
    ELSE IF ~projections_data.present THEN staging_data.body
    ELSE IF ~staging_data.present THEN projections_data.body
    ELSE DedupLoop(projections_data.body \o staging_data.body, {}, <<>>)

\* ProjectionMerger.merge_partition: the staging namespace after the merge
merge_partition(stg, prj, p) ==
    LET staging_key     == _build_staging_file_key(p)
        projections_key == _build_projections_file_key(p)
        merged_data     == _merge_json_data(prj[projections_key], stg[staging_key])
    IN IF merged_data # <<>>
       THEN [stg EXCEPT ![staging_key] = Obj(merged_data)]
       ELSE stg

\* ------------------------------------------------------------ atomic mover
\* variant of _convert_to_projections_key: the prefix is cut too far, the
\* partition directories below the first are lost
_convert_to_projections_key_first(staging_key) == <<Parts[1], staging_key[2]>>

\* AtomicProjectionMover._convert_to_projections_key: same relative path
_convert_to_projections_key(staging_key) == staging_key

\* ------------------------------------------------- projection manifest manager
NoManifest == [present |-> FALSE, projected_versions |-> <<>>, last_projected_version |-> 0]

\* variant of is_version_projected: only the last projected version is looked at
is_version_projected_last(pm, version_id) ==
    IF ~pm.present THEN FALSE
    ELSE pm.last_projected_version = version_id

\* ProjectionManifestManager.is_version_projected
is_version_projected(pm, version_id) ==
    IF ~pm.present THEN FALSE
    ELSE version_id \in SeqToSet(pm.projected_versions)

\* variant of add_projected_version: the list is saved as it was loaded
add_projected_version_noappend(pm, version_id) ==
    [present |-> TRUE,
     projected_versions |-> pm.projected_versions,
     last_projected_version |-> version_id]

\* variant of add_projected_version: the version is appended without looking
\* at the list
add_projected_version_dup(pm, version_id) ==
    [present |-> TRUE,
     projected_versions |-> Append(pm.projected_versions, version_id),
     last_projected_version |-> version_id]

\* ProjectionManifestManager.add_projected_version: the manifest that is saved
add_projected_version(pm, version_id) ==
    LET projected_versions == pm.projected_versions
    IN [present |-> TRUE,
        projected_versions |-> IF version_id \notin SeqToSet(projected_versions)
                               THEN Append(projected_versions, version_id)
                               ELSE projected_versions,
        last_projected_version |-> version_id]

\* VersionManager.create_new_version: the identifier spells the reading of
\* datetime.now() down to the microsecond, "v%Y%m%d_%H%M%S_%f", and nothing
\* else; it is modelled by the reading it spells
create_new_version(now) == now

\* ------------------------------------------- values of the pure functions
\* Python values: None, a string (its characters: letters, digits, "/", and
\* the literals "year=" and "month=" as one token each), a datetime
PyNone == [kind |-> "None"]
Str(chars) == [kind |-> "str", chars |-> chars]
Datetime(date, microsecond) ==
    [kind |-> "datetime", date |-> date, microsecond |-> microsecond]
ValueError == [kind |-> "ValueError"]

DigitChars == <<"0", "1", "2", "3", "4", "5", "6", "7", "8", "9">>
Digits == {DigitChars[i] : i \in 1..Len(DigitChars)}

\* str(n) of a non-negative integer
RECURSIVE str_int(_)
str_int(n) ==
    IF n < Len(DigitChars) THEN <<DigitChars[n + 1]>>
    ELSE str_int(n \div Len(DigitChars)) \o <<DigitChars[(n % Len(DigitChars)) + 1]>>

\* f"{n:02d}"
format_02d(n) == IF Len(str_int(n)) < 2 THEN <<"0">> \o str_int(n) ELSE str_int(n)

\* str(x) of a series key: a string is itself, None is "None"
py_str(x) == IF x.kind = "None" THEN Str(<<"None">>) ELSE x

\* series keys, observation times and collection dates of the data points the
\* pure functions are applied to
SeriesCodes == {PyNone, Str(<<>>), Str(<<"S">>), Str(<<"T">>), Str(<<"S", "/", "T">>)}
PureObsTimes == {PyNone, Str(<<"2024-01-15">>),
                 Datetime("2024-01-15", 0), Datetime("2024-01-15", 1),
                 Datetime("2024-02-15", 0)}
CollectionDates == {PyNone, Datetime("2024-02-15", 0)}

PurePoints == [internal_series_code : SeriesCodes, obs_time : PureObsTimes,
               collection_date : CollectionDates]

\* the checks of get_partition_path: a ValueError unless the series key is
\* non-empty and obs_time is a datetime
partition_path_accepts(data_point) ==
    /\ py_str(data_point.internal_series_code).chars # <<>>
    /\ data_point.obs_time.kind = "datetime"

\* the string get_partition_path returns:
\* f"{series_code}/year={obs_time.year}/month={obs_time.month:02d}/"
partition_path_str(data_point) ==
    py_str(data_point.internal_series_code).chars
        \o <<"/", "year=">> \o str_int(YearOf(data_point.obs_time.date))
        \o <<"/", "month=">> \o format_02d(MonthOf(data_point.obs_time.date))
        \o <<"/">>

\* length of the longest run of characters other than "/" at the start of s
NonSlashRun(s) ==
    CHOOSE n \in 0..Len(s) :
        /\ \A i \in 1..n : s[i] # "/"
        /\ n = Len(s) \/ s[n + 1] = "/"

\* length of the longest run of digits of s that starts at index from
DigitRun(s, from) ==
    CHOOSE n \in 0..(Len(s) - from + 1) :
        /\ \A i \in from..(from + n - 1) : s[i] \in Digits
        /\ from + n > Len(s) \/ s[from + n] \notin Digits

\* parse_partition_path: PARTITION_PATH_PATTERN.match, that is
\* ([^/]+)/year=(\d+)/month=(\d+)/? anchored at the start of the path
parse_partition_path(partition_path) ==
    LET g1  == NonSlashRun(partition_path)
        ok1 == /\ g1 >= 1
               /\ Len(partition_path) >= g1 + 2
               /\ partition_path[g1 + 1] = "/"
               /\ partition_path[g1 + 2] = "year="
        y0  == g1 + 3
        g2  == DigitRun(partition_path, y0)
        ok2 == /\ g2 >= 1
               /\ Len(partition_path) >= y0 + g2 + 1
               /\ partition_path[y0 + g2] = "/"
               /\ partition_path[y0 + g2 + 1] = "month="
        m0  == y0 + g2 + 2
        g3  == DigitRun(partition_path, m0)
    IN IF ok1 /\ ok2 /\ g3 >= 1
       THEN [kind |-> "dict",
             internal_series_code |-> Str(SubSeq(partition_path, 1, g1)),
             year  |-> Str(SubSeq(partition_path, y0, y0 + g2 - 1)),
             month |-> Str(SubSeq(partition_path, m0, m0 + g3 - 1))]
       ELSE ValueError

\* variant of group_loop: a data point replaces the group of its partition
RECURSIVE group_loop_overwrite(_, _)
group_loop_overwrite(data, grouped) ==
    IF data = <<>> THEN grouped
    ELSE LET p == partition_path_str(Head(data))
         IN group_loop_overwrite(Tail(data),
                IF p \in DOMAIN grouped
                THEN [grouped EXCEPT ![p] = <<Head(data)>>]
                ELSE grouped @@ (p :> <<Head(data)>>))

\* the loop of group_by_partition:
\* grouped[self.get_partition_path(data_point)].append(data_point)
RECURSIVE group_loop(_, _)
group_loop(data, grouped) ==
    IF data = <<>> THEN grouped
    ELSE LET p == partition_path_str(Head(data))
         IN group_loop(Tail(data),
                IF p \in DOMAIN grouped
                THEN [grouped EXCEPT ![p] = Append(@, Head(data))]
                ELSE grouped @@ (p :> <<Head(data)>>))

\* group_by_partition on data points with string keys: the dict of the
\* groups, or the ValueError of the first data point that is not accepted
grouped_by_partition(data) ==
    IF \E i \in 1..Len(data) : ~partition_path_accepts(data[i])
    THEN ValueError
    ELSE [kind |-> "dict", groups |-> group_loop(data, [p \in {} |-> <<>>])]

\* order of the characters in a string comparison (their code points)
CharOrder == <<"/", "S", "T">>
CharRank(c) == CHOOSE i \in 1..Len(CharOrder) : CharOrder[i] = c

\* a < b for two strings
RECURSIVE StrLess(_, _)
StrLess(a, b) ==
    IF b = <<>> THEN FALSE
    ELSE IF a = <<>> THEN TRUE
    ELSE IF Head(a) # Head(b) THEN CharRank(Head(a)) < CharRank(Head(b))
    ELSE StrLess(Tail(a), Tail(b))

\* sorted(codes) of a set of strings
RECURSIVE sorted(_)
sorted(codes) ==
    IF codes = {} THEN <<>>
    ELSE LET m == CHOOSE x \in codes : \A y \in codes \ {x} : StrLess(x.chars, y.chars)
         IN <<m>> \o sorted(codes \ {m})

\* a <= b for two datetimes
DatetimeLeq(a, b) ==
    \/ Rank(a.date) < Rank(b.date)
    \/ a.date = b.date /\ a.microsecond <= b.microsecond

\* strftime("%Y-%m-%dT%H:%M:%SZ"): the microseconds are dropped
strftime(dt) == Str(<<dt.date>>)

\* variant of create_manifest: the date range is read off the first and the
\* last data point
create_manifest_ends(data) ==
    LET codes     == {data[i].internal_series_code : i \in 1..Len(data)} \ {PyNone}
        obs_times == SelectSeq([i \in 1..Len(data) |-> data[i].obs_time],
                               LAMBDA t : t.kind = "datetime")
    IN [kind |-> "dict",
        collection_date |-> IF data # <<>> /\ data[1].collection_date # PyNone
                            THEN strftime(data[1].collection_date) ELSE PyNone,
        data_points_count |-> Len(data),
        series_count |-> Len(sorted(codes)),
        series_codes |-> sorted(codes),
        date_range |-> [min_obs_time |-> IF obs_times # <<>>
                                         THEN strftime(obs_times[1]) ELSE PyNone,
                        max_obs_time |-> IF obs_times # <<>>
                                         THEN strftime(obs_times[Len(obs_times)]) ELSE PyNone]]

\* ManifestManager.create_manifest: the fields computed from data
create_manifest(data) ==
    LET codes     == {data[i].internal_series_code : i \in 1..Len(data)} \ {PyNone}
        obs_times == {data[i].obs_time : i \in 1..Len(data)} \ {t \in PureObsTimes : t.kind # "datetime"}
        min_obs_time == IF obs_times # {}
                        THEN CHOOSE t \in obs_times : \A u \in obs_times : DatetimeLeq(t, u)
                        ELSE PyNone
        max_obs_time == IF obs_times # {}
                        THEN CHOOSE t \in obs_times : \A u \in obs_times : DatetimeLeq(u, t)
                        ELSE PyNone
        collection_date == IF data # <<>> THEN data[1].collection_date ELSE PyNone
    IN [kind |-> "dict",
        collection_date |-> IF collection_date # PyNone
                            THEN strftime(collection_date) ELSE PyNone,
        data_points_count |-> Len(data),
        series_count |-> Len(sorted(codes)),
        series_codes |-> sorted(codes),
        date_range |-> [min_obs_time |-> IF min_obs_time # PyNone
                                         THEN strftime(min_obs_time) ELSE PyNone,
                        max_obs_time |-> IF max_obs_time # PyNone
                                         THEN strftime(max_obs_time) ELSE PyNone]]

\* argument and result of the last call of a pure function:
\*   data  the data points drawn for the behaviour
\*   fn    the function called last, "none" before the first call
\*   out   what it returned or raised
NoPure == [data |-> <<>>, fn |-> "none", out |-> PyNone]

\* the ThreadPoolExecutor of _copy_all_files_parallel and of
\* _merge_all_partitions_parallel:
\*   copy_workers, merge_workers  the max_workers of the two pools
\*   status  one entry per submitted item (the items are queue): "pending",
\*           "running", "done" or "failed"; empty while no batch runs
\*   read    what a running merge_partition has read: the staging and the
\*           projection namespace at the moment it read them
\*   start   the staging namespace when the batch was submitted
NoPool == [copy_workers |-> 1, merge_workers |-> 1, status |-> <<>>, read |-> <<>>,
           start |-> EmptyStore]

\* ------------------------------------------------------------------- state
VARIABLES
    vdata,        \* vdata[v][k]: object at versions/{v}/data/{k}
    vmanifest,    \* vmanifest[v]: the version manifest (present, parquet_files)
    current,      \* current-version pointer, 0 when absent
    nextV,        \* the clock reading create_new_version turns into the next id
    loadCall,     \* locals of the running / last S3VersionedLoader.load
    etl,          \* locals of the running / last ETLUseCase.execute (see NoEtl)
    pure,         \* argument and result of the last call of a pure function (see NoPure)
    pool,         \* the thread pool of the running batch (see NoPool)
    staging,      \* staging[k]: object at staging/{k}
    projections,  \* projections[k]: object at projections/{k}
    pmanifest,    \* the projection manifest
    pc,           \* position inside the running call; "done" between calls
    callV,        \* version_id argument of the current / last call
    result,       \* outcome of the last call: "none", "False", "True", "raised"
                  \* (a store fault reached the caller), "ValueError", "pending" (called by execute),
                  \* "returned" (load returns None)
    queue,        \* work list of the loop being executed
    copied,       \* copied_files of _copy_all_to_projections
    failed,       \* an item of the running batch / loop raised
    faults,       \* object-store faults injected so far in the running call
    hist          \* history of the current call (see NoHist)

vars == <<vdata, vmanifest, current, nextV, loadCall, etl, pure, pool, staging, projections, pmanifest,
          pc, callV, result, queue, copied, failed, faults, hist>>

storeVars == <<vdata, vmanifest, current, nextV, loadCall, etl, pure, pool>>

NoVersionManifest == [present |-> FALSE, parquet_files |-> <<>>]

\* locals of load: version_id and data of the call, and the history minted of
\* the identifiers create_new_version returned so far
NoLoadCall == [version_id |-> 0, data |-> <<>>, minted |-> <<>>]

\* lock.key of the configuration: absent (the default etl:{dataset_id} is
\* used), a custom key, or the empty string
LockKeys == {"default", "custom", "empty"}

\* lock_config.get("key", f"etl:{dataset_id}")
lock_config_get_key(key) ==
    CASE key = "default" -> "etl:dataset"
      [] key = "custom"  -> "custom_lock"
      [] key = "empty"   -> ""

\* truth value of a lock key in a condition: None and "" are false
Truthy(lock_key) == lock_key \notin {NoneVal, ""}

\* the collaborators an ETLUseCase is built with and the lock section of its
\* configuration; a projection use case is only built next to a loader, a
\* notification service only inside a projection use case
EtlConfigs ==
    {c \in [lock_manager : BOOLEAN, key : LockKeys, loader : BOOLEAN,
            projection_use_case : BOOLEAN, notification_service : BOOLEAN,
            state_manager : BOOLEAN] :
        /\ c.projection_use_case => c.loader
        /\ c.notification_service => c.projection_use_case
        /\ ~c.lock_manager => c.key = "default"}

\* locals of execute and history of the running / last call:
\*   cfg           collaborators and lock key of the use case
\*   pc            position of execute: "idle" before the call, "ended" after it
\*   lock_key      the local lock_key
\*   lock          the lock of that key: "free", "held" by this process, "other"
\*   acquired      acquire returned True in this call
\*   released      number of release calls of this call
\*   released_key  key of the last release call
\*   notified      notify_projection_update calls of this call
\*   ran           a pipeline step of this call has run
\*   exc           an exception is propagating through the finally
\*   outcome       how the call ended
\*   data          the local data, once parsed
\*   state         the last date the state manager holds for the series, as its
\*                 place in ObsOrder, 0 for none
\*   state0        state when the call began
NoEtl == [cfg |-> [lock_manager |-> FALSE, key |-> "default", loader |-> FALSE,
                   projection_use_case |-> FALSE, notification_service |-> FALSE,
                   state_manager |-> FALSE],
          pc |-> "idle", lock_key |-> NoneVal, lock |-> "free",
          acquired |-> FALSE, released |-> 0, released_key |-> NoneVal,
          notified |-> 0, ran |-> FALSE, exc |-> FALSE, outcome |-> "none",
          data |-> <<>>, state |-> 0, state0 |-> 0]

\* History of one project_version call, kept until the next call or publish:
\*   preProj                   the projection namespace when the call started
\*   listedAtStart             the version was in the projection manifest at the start
\*   moveStaging               staging as listed when move_staging_to_projections started
\*   moved                     move_staging_to_projections returned normally
\*   moveRaised                move_staging_to_projections re-raised
\*   copyFailAt                number of files copied when a copy of the move failed, -1 if none
\*   rollbackFault             a rollback delete failed
\*   recordFault               add_projected_version raised
\*   checkFault                the read of the projection manifest in step 1 raised
\*   staleStart                staging held, at the start, an object of an earlier fold
\*                             at a key the version of this call has no file for
\*   retry                     previous call: same version, published, then failed to record
\*   mergeIn / mergeOut        inputs and result of the last _merge_json_data
\*   added                     versions whose add_projected_version call returned
\*   listing                   what the last list_versions returned
NoHist == [preProj |-> EmptyStore, listedAtStart |-> FALSE,
           moveStaging |-> EmptyStore,
           moved |-> FALSE, moveRaised |-> FALSE,
           copyFailAt |-> -1, rollbackFault |-> FALSE, recordFault |-> FALSE,
           retry |-> FALSE, checkFault |-> FALSE, staleStart |-> FALSE,
           mergeIn |-> [prj |-> NoObj, stg |-> NoObj], mergeOut |-> <<>>, merges |-> 0,
           added |-> {}, listing |-> <<>>]

Init ==
    /\ vdata = [v \in VersionIds |-> EmptyStore]
    /\ vmanifest = [v \in VersionIds |-> NoVersionManifest]
    /\ current = 0
    /\ nextV = 1
    /\ loadCall = NoLoadCall
    /\ etl = NoEtl
    /\ pure = NoPure
    /\ pool = NoPool
    /\ staging = EmptyStore
    /\ projections = EmptyStore
    /\ pmanifest = NoManifest
    /\ pc = "done"
    /\ callV = 0
    /\ result = "none"
    /\ queue = <<>>
    /\ copied = <<>>
    /\ failed = FALSE
    /\ faults = 0
    /\ hist = NoHist

CanFault == faults < MaxFaults

\* the call ends by raising to the caller
Raise ==
    /\ pc' = "done"
    /\ result' = "raised"
    /\ queue' = <<>>
    /\ copied' = <<>>
    /\ failed' = FALSE
    /\ faults' = 0

\* the call ends with the ValueError of project_version
RaiseValueError ==
    /\ pc' = "done"
    /\ result' = "ValueError"
    /\ queue' = <<>>
    /\ copied' = <<>>
    /\ failed' = FALSE
    /\ faults' = 0

\* the call ends by returning r
Return(r) ==
    /\ pc' = "done"
    /\ result' = r
    /\ queue' = <<>>
    /\ copied' = <<>>
    /\ failed' = FALSE
    /\ faults' = 0

\* sequences of at most n elements of S
SeqsUpTo(S, n) == UNION {[1..m -> S] : m \in 0..n}

\* what one ETL cycle hands to the loader: at most MaxData data points, each
\* observation once, in observation order
LoadInputs ==
    {d \in SeqsUpTo(LoadPoints, MaxData) :
        \A i, j \in 1..Len(d) : i < j => Rank(d[i].obs_time) < Rank(d[j].obs_time)}

\* ------------------------------------------------------------------ publish
\* S3VersionedLoader.load: mint a version, upload one file per partition,
\* save the manifest, flip the current pointer
Load(data) ==
    /\ pc = "done"
    /\ nextV <= MaxVersions
    /\ LET version_id    == create_new_version(nextV)
           parquet_files == write_to_parquet(data)
       IN /\ vdata' = [vdata EXCEPT ![version_id] =
                          [k \in KeySet |->
                              IF k \in SeqToSet(parquet_files)
                              THEN Obj(group_by_partition(data, k[1]))
                              ELSE NoObj]]
          /\ vmanifest' = [vmanifest EXCEPT ![version_id] =
                              [present |-> TRUE, parquet_files |-> parquet_files]]
          /\ current' = version_id
    /\ nextV' = nextV + 1
    /\ hist' = [NoHist EXCEPT !.moved = hist.moved, !.recordFault = hist.recordFault]
    /\ UNCHANGED <<loadCall, etl, pure, pool, staging, projections, pmanifest, pc, callV, result,
                   queue, copied, failed, faults>>

\* ----------------------------------------------------------- project_version
\* entry of ProjectionManager.project_version(version_id, dataset_id)
StartProject(version_id) ==
    /\ pc = "done"
    /\ version_id <= nextV            \* a published version, or one that does not exist
    /\ pc' = "check"
    /\ callV' = version_id
    /\ result' = "none"
    /\ hist' = [NoHist EXCEPT
                  !.preProj = projections,
                  !.listedAtStart = (\E i \in 1..Len(pmanifest.projected_versions) :
                                        pmanifest.projected_versions[i] = version_id),
                  !.retry = (callV = version_id /\ result = "raised"
                             /\ hist.moved /\ hist.recordFault),
                  !.staleStart = (\E k \in KeySet :
                                     /\ staging[k].present
                                     /\ k \notin SeqToSet(vmanifest[version_id].parquet_files))]
    /\ UNCHANGED <<storeVars, staging, projections, pmanifest, queue, copied, failed, faults>>

\* step 1, _is_version_already_projected
CheckIdempotency ==
    /\ pc = "check"
    /\ \/ /\ is_version_projected(pmanifest, callV)
          /\ Return("False")
          /\ UNCHANGED hist
       \/ /\ ~is_version_projected(pmanifest, callV)
          /\ pc' = "load_manifest"
          /\ UNCHANGED <<result, queue, copied, failed, faults, hist>>
       \/ /\ CanFault              \* get_object of the projection manifest fails
          /\ hist' = [hist EXCEPT !.checkFault = TRUE]
          /\ Raise
    /\ UNCHANGED <<storeVars, staging, projections, pmanifest, callV>>

\* variant of LoadManifest: an absent manifest is taken for one that lists
\* no files
LoadManifest_none ==
    /\ pc = "load_manifest"
    /\ \/ /\ ~vmanifest[callV].present
          /\ Return("False")
       \/ /\ vmanifest[callV].present
          /\ vmanifest[callV].parquet_files = <<>>
          /\ Return("False")
       \/ /\ vmanifest[callV].present
          /\ vmanifest[callV].parquet_files # <<>>
          /\ pc' = "clear"
          /\ UNCHANGED <<result, queue, copied, failed, faults>>
       \/ /\ CanFault
          /\ Raise
    /\ UNCHANGED <<storeVars, staging, projections, pmanifest, callV, hist>>

\* step 2, _load_manifest and the two early exits of project_version
LoadManifest ==
    /\ pc = "load_manifest"
    /\ \/ /\ ~vmanifest[callV].present        \* ValueError: manifest not found
          /\ RaiseValueError
       \/ /\ vmanifest[callV].present
          /\ vmanifest[callV].parquet_files = <<>>
          /\ Return("False")
       \/ /\ vmanifest[callV].present
          /\ vmanifest[callV].parquet_files # <<>>
          /\ pc' = "clear"
          /\ UNCHANGED <<result, queue, copied, failed, faults>>
       \/ /\ CanFault
          /\ Raise
    /\ UNCHANGED <<storeVars, staging, projections, pmanifest, callV, hist>>

\* variant of ClearStagingList: the cleanup is skipped, the copy starts on
\* whatever staging holds
ClearStagingList_skip ==
    /\ pc = "clear"
    /\ \/ /\ pc' = "copy"
          /\ queue' = vmanifest[callV].parquet_files
          /\ UNCHANGED <<result, copied, failed, faults>>
       \/ /\ CanFault
          /\ Raise
    /\ UNCHANGED <<storeVars, staging, projections, pmanifest, callV, hist>>

\* step 3, StagingManager.clear_staging: list the staging keys
ClearStagingList ==
    /\ pc = "clear"
    /\ \/ /\ _list_s3_keys(staging) = <<>>       \* already empty: on to copy_from_version
          /\ pc' = "copy"
          /\ queue' = vmanifest[callV].parquet_files
          /\ UNCHANGED <<result, copied, failed, faults>>
       \/ /\ _list_s3_keys(staging) # <<>>
          /\ pc' = "clear_del"
          /\ queue' = _list_s3_keys(staging)
          /\ UNCHANGED <<result, copied, failed, faults>>
       \/ /\ CanFault
          /\ Raise
    /\ UNCHANGED <<storeVars, staging, projections, pmanifest, callV, hist>>

\* StagingManager._delete_all_objects: one delete_object; a fault propagates
ClearStagingDelete ==
    /\ pc = "clear_del"
    /\ queue # <<>>
    /\ \/ /\ staging' = _delete_s3_object(staging, Head(queue))
          /\ UNCHANGED hist
          /\ IF Tail(queue) = <<>>
             THEN /\ pc' = "copy"
                  /\ queue' = vmanifest[callV].parquet_files
             ELSE /\ pc' = "clear_del"
                  /\ queue' = Tail(queue)
          /\ UNCHANGED <<result, copied, failed, faults>>
       \/ /\ CanFault
          /\ Raise
          /\ UNCHANGED <<staging, hist>>
    /\ UNCHANGED <<storeVars, projections, pmanifest, callV>>

\* variant of CopyToStaging: the error of a copy is logged and dropped, the
\* fold goes on to the merge
CopyToStaging_swallow ==
    /\ pc = "copy"
    /\ queue # <<>>
    /\ LET json_file == Head(queue)
           dest_key  == _build_staging_file_path(json_file)
       IN \/ /\ staging' = _copy_s3_object(vdata[callV], staging, json_file, dest_key)
             /\ UNCHANGED hist
             /\ IF Tail(queue) # <<>>
                THEN /\ queue' = Tail(queue)
                     /\ UNCHANGED <<pc, result, copied, failed, faults>>
                ELSE /\ pc' = "merge_list"
                     /\ queue' = <<>>
                     /\ UNCHANGED <<result, copied, failed, faults>>
          \/ /\ CanFault
             /\ faults' = faults + 1
             /\ failed' = TRUE
             /\ IF Tail(queue) # <<>>
                THEN /\ queue' = Tail(queue)
                     /\ UNCHANGED <<pc, result, copied>>
                ELSE /\ pc' = "merge_list"
                     /\ queue' = <<>>
                     /\ UNCHANGED <<result, copied>>
             /\ UNCHANGED <<staging, hist>>
    /\ UNCHANGED <<storeVars, projections, pmanifest, callV>>

\* step 4, StagingManager._copy_all_files_parallel with the default single
\* worker: every submitted copy runs (the executor is drained on exit), the
\* first error is re-raised once the pool has shut down
CopyToStaging ==
    /\ pc = "copy"
    /\ queue # <<>>
    /\ LET json_file == Head(queue)
           dest_key  == _build_staging_file_path(json_file)
       IN \/ /\ staging' = _copy_s3_object(vdata[callV], staging, json_file, dest_key)
             /\ UNCHANGED hist
             /\ IF Tail(queue) # <<>>
                THEN /\ queue' = Tail(queue)
                     /\ UNCHANGED <<pc, result, copied, failed, faults>>
                ELSE IF failed
                     THEN Raise
                     ELSE /\ pc' = "merge_list"
                          /\ queue' = <<>>
                          /\ UNCHANGED <<result, copied, failed, faults>>
          \/ /\ CanFault
             /\ IF Tail(queue) # <<>>
                THEN /\ queue' = Tail(queue)
                     /\ failed' = TRUE
                     /\ faults' = faults + 1
                     /\ UNCHANGED <<pc, result, copied>>
                ELSE Raise
             /\ UNCHANGED <<staging, hist>>
    /\ UNCHANGED <<storeVars, projections, pmanifest, callV>>

\* step 5, ProjectionMerger.merge_all_partitions: list the staging partitions
MergeList ==
    /\ pc = "merge_list"
    /\ \/ /\ queue' = list_staging_partitions(staging)
          /\ pc' = IF list_staging_partitions(staging) = <<>> THEN "move_list" ELSE "merge"
          /\ UNCHANGED <<result, copied, failed, faults>>
       \/ /\ CanFault
          /\ Raise
    /\ UNCHANGED <<storeVars, staging, projections, pmanifest, callV, hist>>

\* ProjectionMerger.merge_partition for the next partition (single worker)
MergePartition ==
    /\ pc = "merge"
    /\ queue # <<>>
    /\ LET partition_path == Head(queue)
       IN \/ /\ staging' = merge_partition(staging, projections, partition_path)
             /\ hist' = [hist EXCEPT
                           !.mergeIn = [prj |-> projections[_build_projections_file_key(partition_path)],
                                        stg |-> staging[_build_staging_file_key(partition_path)]],
                           !.mergeOut = _merge_json_data(
                                           projections[_build_projections_file_key(partition_path)],
                                           staging[_build_staging_file_key(partition_path)]),
                           !.merges = 1]
             /\ IF Tail(queue) # <<>>
                THEN /\ queue' = Tail(queue)
                     /\ UNCHANGED <<pc, result, copied, failed, faults>>
                ELSE IF failed
                     THEN Raise
                     ELSE /\ pc' = "move_list"
                          /\ queue' = <<>>
                          /\ UNCHANGED <<result, copied, failed, faults>>
          \/ /\ CanFault
             /\ IF Tail(queue) # <<>>
                THEN /\ queue' = Tail(queue)
                     /\ failed' = TRUE
                     /\ faults' = faults + 1
                     /\ UNCHANGED <<pc, result, copied>>
                ELSE Raise
             /\ UNCHANGED <<staging, hist>>
    /\ UNCHANGED <<storeVars, projections, pmanifest, callV>>

\* step 6, AtomicProjectionMover.move_staging_to_projections: _get_staging_files
MoveList ==
    /\ pc = "move_list"
    /\ \/ /\ _list_s3_keys(staging) = <<>>        \* nothing in staging: return
          /\ pc' = "record"
          /\ hist' = [hist EXCEPT !.moveStaging = staging, !.moved = TRUE]
          /\ UNCHANGED <<result, queue, copied, failed, faults>>
       \/ /\ _list_s3_keys(staging) # <<>>
          /\ pc' = "move_copy"
          /\ queue' = _list_s3_keys(staging)
          /\ copied' = <<>>
          /\ hist' = [hist EXCEPT !.moveStaging = staging]
          /\ UNCHANGED <<result, failed, faults>>
       \/ /\ CanFault
          /\ hist' = [hist EXCEPT !.moveStaging = staging, !.moveRaised = TRUE]
          /\ Raise
    /\ UNCHANGED <<storeVars, staging, projections, pmanifest, callV>>

\* one iteration of the loop of _copy_all_to_projections
MoveCopy ==
    /\ pc = "move_copy"
    /\ queue # <<>>
    /\ LET staging_key     == Head(queue)
           projections_key == _convert_to_projections_key(staging_key)
       IN \/ /\ projections' = _copy_s3_object(staging, projections, staging_key, projections_key)
             /\ copied' = Append(copied, projections_key)
             /\ IF Tail(queue) # <<>>
                THEN /\ queue' = Tail(queue)
                     /\ pc' = "move_copy"
                ELSE /\ queue' = _list_s3_keys(hist.moveStaging)   \* staging_files
                     /\ pc' = "move_delete"
             /\ UNCHANGED hist
             /\ UNCHANGED faults
          \/ /\ CanFault                  \* copy_object raises: roll back copied_files
             /\ faults' = faults + 1
             /\ pc' = "move_rollback"
             /\ queue' = copied
             /\ hist' = [hist EXCEPT !.copyFailAt = Len(copied)]
             /\ UNCHANGED <<projections, copied>>
    /\ UNCHANGED <<storeVars, staging, pmanifest, callV, result, failed>>

\* variant of MoveRollback: the rollback deletes the staging files it copied from
MoveRollback_staging ==
    /\ pc = "move_rollback"
    /\ queue # <<>>
    /\ \/ /\ staging' = _delete_s3_object(staging, Head(queue))
          /\ UNCHANGED <<faults, hist>>
       \/ /\ CanFault
          /\ faults' = faults + 1
          /\ hist' = [hist EXCEPT !.rollbackFault = TRUE]
          /\ UNCHANGED staging
    /\ queue' = Tail(queue)
    /\ UNCHANGED <<storeVars, projections, pmanifest, pc, callV, result, copied, failed>>

\* rollback: _delete_files(copied_files), one _delete_single_file; a failing
\* delete is logged and skipped
MoveRollback ==
    /\ pc = "move_rollback"
    /\ queue # <<>>
    /\ \/ /\ projections' = _delete_s3_object(projections, Head(queue))
          /\ UNCHANGED <<faults, hist>>
       \/ /\ CanFault
          /\ faults' = faults + 1
          /\ hist' = [hist EXCEPT !.rollbackFault = TRUE]
          /\ UNCHANGED projections
    /\ queue' = Tail(queue)
    /\ UNCHANGED <<storeVars, staging, pmanifest, pc, callV, result, copied, failed>>

\* variant of MoveReraise: the except branch ends without raise, the
\* orchestrator goes on to record the version
MoveReraise_swallow ==
    /\ pc = "move_rollback"
    /\ queue = <<>>
    /\ pc' = "record"
    /\ UNCHANGED <<storeVars, staging, projections, pmanifest, callV, result,
                   queue, copied, failed, faults, hist>>

\* the raise that ends the except branch of _copy_all_to_projections; it
\* leaves move_staging_to_projections and project_version
MoveReraise ==
    /\ pc = "move_rollback"
    /\ queue = <<>>
    /\ hist' = [hist EXCEPT !.moveRaised = TRUE]
    /\ Raise
    /\ UNCHANGED <<storeVars, staging, projections, pmanifest, callV>>

\* variant of MoveDeleteStaging: a failing delete of a staging file is not
\* caught
MoveDeleteStaging_raise ==
    /\ pc = "move_delete"
    /\ queue # <<>>
    /\ \/ /\ staging' = _delete_s3_object(staging, Head(queue))
          /\ IF Tail(queue) # <<>>
             THEN /\ queue' = Tail(queue)
                  /\ UNCHANGED <<pc, hist>>
             ELSE /\ queue' = <<>>
                  /\ pc' = "record"
                  /\ hist' = [hist EXCEPT !.moved = TRUE]
          /\ UNCHANGED <<result, copied, failed, faults>>
       \/ /\ CanFault
          /\ Raise
          /\ UNCHANGED <<staging, hist>>
    /\ UNCHANGED <<storeVars, projections, pmanifest, callV>>

\* _delete_staging_after_successful_copy: one _delete_single_file of a
\* staging file; failures are logged, the move then returns normally
MoveDeleteStaging ==
    /\ pc = "move_delete"
    /\ queue # <<>>
    /\ \/ /\ staging' = _delete_s3_object(staging, Head(queue))
          /\ UNCHANGED faults
       \/ /\ CanFault
          /\ faults' = faults + 1
          /\ UNCHANGED staging
    /\ IF Tail(queue) # <<>>
       THEN /\ queue' = Tail(queue)
            /\ UNCHANGED <<pc, hist>>
       ELSE /\ queue' = <<>>
            /\ pc' = "record"
            /\ hist' = [hist EXCEPT !.moved = TRUE]
    /\ UNCHANGED <<storeVars, projections, pmanifest, callV, result, copied, failed>>

\* step 7, _record_projected_version, then return True
RecordProjected ==
    /\ pc = "record"
    /\ \/ /\ pmanifest' = add_projected_version(pmanifest, callV)
          /\ UNCHANGED hist
          /\ Return("True")
       \/ /\ CanFault               \* get_object or put_object of the manifest fails
          /\ hist' = [hist EXCEPT !.recordFault = TRUE]
          /\ Raise
          /\ UNCHANGED pmanifest
    /\ UNCHANGED <<storeVars, staging, projections, callV>>

\* ------------------------------------------------------------ specification
Next ==
    \/ \E data \in LoadInputs : Load(data)
    \/ \E version_id \in VersionIds : StartProject(version_id)
    \/ CheckIdempotency
    \/ LoadManifest
    \/ ClearStagingList
    \/ ClearStagingDelete
    \/ CopyToStaging
    \/ MergeList
    \/ MergePartition
    \/ MoveList
    \/ MoveCopy
    \/ MoveRollback
    \/ MoveReraise
    \/ MoveDeleteStaging
    \/ RecordProjected

Spec == Init /\ [][Next]_vars

TypeOK ==
    /\ pc \in {"done", "check", "load_manifest", "clear", "clear_del", "copy",
               "merge_list", "merge", "move_list", "move_copy", "move_rollback",
               "move_delete", "record", "load_upload", "load_save", "load_pointer"}
    /\ result \in {"none", "False", "True", "raised", "ValueError", "returned", "pending", "listed"}
    /\ faults \in 0..MaxFaults

\* ------------------------------------------- the merger on arbitrary inputs
\* data points of the partition Parts[1]
MergePoints == {r \in DataPoints : get_partition_path(r) = Parts[1]}

\* a record set read by _download_and_read_json: absent, or a list of records
RecordSets == {NoObj} \cup {Obj(b) : b \in SeqsUpTo(MergePoints, MaxLen)}

InitMerge ==
    /\ vdata = [v \in VersionIds |-> EmptyStore]
    /\ vmanifest = [v \in VersionIds |-> NoVersionManifest]
    /\ current = 0
    /\ nextV = 1
    /\ loadCall = NoLoadCall
    /\ etl = NoEtl
    /\ pure = NoPure
    /\ pool = NoPool
    /\ \E s \in RecordSets :
          staging = [EmptyStore EXCEPT ![_build_staging_file_key(Parts[1])] = s]
    /\ \E p \in RecordSets :
          projections = [EmptyStore EXCEPT ![_build_projections_file_key(Parts[1])] = p]
    /\ pmanifest = NoManifest
    /\ pc = "done"
    /\ callV = 0
    /\ result = "none"
    /\ queue = <<>>
    /\ copied = <<>>
    /\ failed = FALSE
    /\ faults = 0
    /\ hist = NoHist

\* a call of ProjectionMerger.merge_partition(dataset_id, partition_path)
MergePartitionCall(partition_path) ==
    /\ pc = "done"
    /\ staging' = merge_partition(staging, projections, partition_path)
    /\ hist' = [hist EXCEPT
                  !.mergeIn = [prj |-> projections[_build_projections_file_key(partition_path)],
                               stg |-> staging[_build_staging_file_key(partition_path)]],
                  !.mergeOut = _merge_json_data(
                                  projections[_build_projections_file_key(partition_path)],
                                  staging[_build_staging_file_key(partition_path)]),
                  !.merges = 1]
    /\ UNCHANGED <<storeVars, projections, pmanifest, pc, callV, result, queue,
                   copied, failed, faults>>

NextMerge == \E partition_path \in PartSet : MergePartitionCall(partition_path)

SpecMerge == InitMerge /\ [][NextMerge]_vars

\* ------------------------------------------ the mover on arbitrary namespaces
\* the objects the mover finds: none, or a file of one record
MoveObjs == {NoObj} \cup {Obj(<<r>>) : r \in MergePoints}

\* the namespaces the mover is started on: a data.json of the first
\* partition and a data.parquet of the last, each absent or present
MoveStores ==
    {[EmptyStore EXCEPT ![AllKeys[1]] = a, ![AllKeys[Len(AllKeys)]] = b] :
        a \in MoveObjs, b \in MoveObjs}

InitMove ==
    /\ vdata = [v \in VersionIds |-> EmptyStore]
    /\ vmanifest = [v \in VersionIds |-> NoVersionManifest]
    /\ current = 0
    /\ nextV = 1
    /\ loadCall = NoLoadCall
    /\ etl = NoEtl
    /\ pure = NoPure
    /\ pool = NoPool
    /\ staging \in MoveStores
    /\ projections \in MoveStores
    /\ pmanifest = NoManifest
    /\ pc = "done"
    /\ callV = 0
    /\ result = "none"
    /\ queue = <<>>
    /\ copied = <<>>
    /\ failed = FALSE
    /\ faults = 0
    /\ hist = NoHist

\* a call of AtomicProjectionMover.move_staging_to_projections(dataset_id)
MoveCall ==
    /\ pc = "done"
    /\ pc' = "move_list"
    /\ result' = "none"
    /\ hist' = [NoHist EXCEPT !.preProj = projections]
    /\ UNCHANGED <<storeVars, staging, projections, pmanifest, callV, queue,
                   copied, failed, faults>>

\* the two returns of move_staging_to_projections
MoveReturn ==
    /\ pc = "record"
    /\ Return("returned")
    /\ UNCHANGED <<storeVars, staging, projections, pmanifest, callV, hist>>

NextMove ==
    \/ MoveCall
    \/ MoveList
    \/ MoveCopy
    \/ MoveRollback
    \/ MoveReraise
    \/ MoveDeleteStaging
    \/ MoveReturn

SpecMove == InitMove /\ [][NextMove]_vars

\* --------------------------------------------- the publish, one store call at a time
\* the wall clock moves on to its next microsecond reading
Tick ==
    /\ nextV < MaxVersions
    /\ nextV' = nextV + 1
    /\ UNCHANGED <<vdata, vmanifest, current, loadCall, etl, pure, pool, staging, projections,
                   pmanifest, pc, callV, result, queue, copied, failed, faults, hist>>

\* S3VersionedLoader.load up to the first upload: create_new_version, then
\* write_to_parquet into the temporary directory
LoadStart(data) ==
    /\ pc = "done"
    /\ Len(loadCall.minted) < MaxLoads
    /\ LET version_id == create_new_version(nextV)
       IN loadCall' = [version_id |-> version_id, data |-> data,
                       minted |-> Append(loadCall.minted, version_id)]
    /\ queue' = write_to_parquet(data)
    /\ pc' = IF write_to_parquet(data) = <<>> THEN "load_save" ELSE "load_upload"
    /\ result' = "none"
    /\ hist' = NoHist
    /\ UNCHANGED <<vdata, vmanifest, current, nextV, etl, pure, pool, staging, projections,
                   pmanifest, callV, copied, failed, faults>>

\* one upload_file of the loop of _write_and_upload_parquet_files
LoadUpload ==
    /\ pc = "load_upload"
    /\ queue # <<>>
    /\ LET rel_path == Head(queue)
       IN \/ /\ vdata' = [vdata EXCEPT ![loadCall.version_id][rel_path] =
                             Obj(group_by_partition(loadCall.data, rel_path[1]))]
             /\ queue' = Tail(queue)
             /\ pc' = IF Tail(queue) = <<>> THEN "load_save" ELSE "load_upload"
             /\ UNCHANGED <<result, copied, failed, faults>>
          \/ /\ CanFault
             /\ Raise
             /\ UNCHANGED vdata
    /\ UNCHANGED <<vmanifest, current, nextV, loadCall, etl, pure, pool, staging, projections,
                   pmanifest, callV, hist>>

\* variant of LoadSaveManifest: a failing put_object of the manifest is
\* caught and the load goes on to the pointer
LoadSaveManifest_swallow ==
    /\ pc = "load_save"
    /\ \/ vmanifest' = [vmanifest EXCEPT ![loadCall.version_id] =
                          [present |-> TRUE, parquet_files |-> write_to_parquet(loadCall.data)]]
       \/ /\ CanFault
          /\ UNCHANGED vmanifest
    /\ pc' = "load_pointer"
    /\ UNCHANGED <<vdata, current, nextV, loadCall, etl, pure, pool, staging, projections,
                   pmanifest, callV, result, queue, copied, failed, faults, hist>>

\* _create_and_save_manifest: create_manifest, then the put_object of
\* ManifestManager.save_manifest
LoadSaveManifest ==
    /\ pc = "load_save"
    /\ \/ /\ vmanifest' = [vmanifest EXCEPT ![loadCall.version_id] =
                             [present |-> TRUE, parquet_files |-> write_to_parquet(loadCall.data)]]
          /\ pc' = "load_pointer"
          /\ UNCHANGED <<result, queue, copied, failed, faults>>
       \/ /\ CanFault
          /\ Raise
          /\ UNCHANGED vmanifest
    /\ UNCHANGED <<vdata, current, nextV, loadCall, etl, pure, pool, staging, projections,
                   pmanifest, callV, hist>>

\* VersionManager.set_current_version: the put_object of the pointer, then
\* load returns
LoadSetCurrent ==
    /\ pc = "load_pointer"
    /\ \/ /\ current' = loadCall.version_id
          /\ Return("returned")
       \/ /\ CanFault
          /\ Raise
          /\ UNCHANGED current
    /\ UNCHANGED <<vdata, vmanifest, nextV, loadCall, etl, pure, pool, staging, projections,
                   pmanifest, callV, hist>>

\* the keys under datasets/{d}/versions/{v}/ in the order the store lists
\* them: data/... before manifest.json
VersionKeys(v) ==
    SelectSeq([i \in 1..Len(AllKeys) |-> <<v, "data", AllKeys[i]>>],
              LAMBDA key : vdata[v][key[3]].present)
    \o (IF vmanifest[v].present THEN << <<v, "manifest.json">> >> ELSE <<>>)

\* the keys under datasets/{d}/versions/ from version v on
RECURSIVE VersionsListing(_)
VersionsListing(v) ==
    IF v > MaxVersions THEN <<>> ELSE VersionKeys(v) \o VersionsListing(v + 1)

\* the Contents of one list_objects_v2 response: the first page of the listing
list_objects_v2(listing) ==
    SubSeq(listing, 1, IF Len(listing) < PageSize THEN Len(listing) ELSE PageSize)

\* sorted(versions, reverse=True)
RECURSIVE SortedReverse(_)
SortedReverse(versions) ==
    IF versions = {} THEN <<>>
    ELSE LET m == CHOOSE x \in versions : \A y \in versions : y <= x
         IN <<m>> \o SortedReverse(versions \ {m})

\* VersionManager.list_versions: one list_objects_v2 call, the version ids of
\* the manifest.json keys of its response, sorted in reverse
list_versions ==
    LET Contents == list_objects_v2(VersionsListing(1))
        versions == {Contents[i][1] : i \in {j \in 1..Len(Contents) :
                                                Contents[j][Len(Contents[j])] = "manifest.json"}}
    IN SortedReverse(versions)

\* one list_versions(dataset_id) call
ListVersions ==
    /\ pc = "done"
    /\ \/ /\ hist' = [hist EXCEPT !.listing = list_versions]
          /\ result' = "listed"
       \/ /\ CanFault
          /\ result' = "raised"
          /\ UNCHANGED hist
    /\ UNCHANGED <<storeVars, staging, projections, pmanifest, pc, callV, queue,
                   copied, failed, faults>>

NextPublish ==
    \/ Tick
    \/ \E data \in LoadInputs : LoadStart(data)
    \/ LoadUpload
    \/ LoadSaveManifest
    \/ LoadSetCurrent
    \/ ListVersions

SpecPublish == Init /\ [][NextPublish]_vars

\* ------------------------------- the projection manifest manager on its own
\* version ids the manifest manager is called with: the published ones and
\* one more
ManifestIds == 1..(MaxVersions + 1)

\* one add_projected_version(dataset_id, version_id) call: load or create
\* empty, append if absent, stamp, save; a failing get_object or put_object
\* raises and saves nothing
AddProjectedVersionCall(version_id) ==
    /\ pc = "done"
    /\ callV' = version_id
    /\ \/ /\ pmanifest' = add_projected_version(pmanifest, version_id)
          /\ hist' = [hist EXCEPT !.added = @ \cup {version_id}]
          /\ result' = "returned"
       \/ /\ CanFault
          /\ result' = "raised"
          /\ UNCHANGED <<pmanifest, hist>>
    /\ UNCHANGED <<storeVars, staging, projections, pc, queue, copied, failed, faults>>

\* one is_version_projected(dataset_id, version_id) call
IsVersionProjectedCall(version_id) ==
    /\ pc = "done"
    /\ callV' = version_id
    /\ \/ result' = IF is_version_projected(pmanifest, version_id) THEN "True" ELSE "False"
       \/ /\ CanFault
          /\ result' = "raised"
    /\ UNCHANGED <<storeVars, staging, projections, pmanifest, pc, queue, copied,
                   failed, faults, hist>>

NextManifest ==
    \/ \E version_id \in ManifestIds : AddProjectedVersionCall(version_id)
    \/ \E version_id \in ManifestIds : IsVersionProjectedCall(version_id)

SpecManifest == Init /\ [][NextManifest]_vars

\* ------------------------------------------------- the pure functions
\* the data of a behaviour: at most MaxData data points
InitPure ==
    /\ vdata = [v \in VersionIds |-> EmptyStore]
    /\ vmanifest = [v \in VersionIds |-> NoVersionManifest]
    /\ current = 0
    /\ nextV = 1
    /\ loadCall = NoLoadCall
    /\ etl = NoEtl
    /\ \E data \in SeqsUpTo(PurePoints, MaxData) : pure = [NoPure EXCEPT !.data = data]
    /\ pool = NoPool
    /\ staging = EmptyStore
    /\ projections = EmptyStore
    /\ pmanifest = NoManifest
    /\ pc = "done"
    /\ callV = 0
    /\ result = "none"
    /\ queue = <<>>
    /\ copied = <<>>
    /\ failed = FALSE
    /\ faults = 0
    /\ hist = NoHist

pureRest == <<vdata, vmanifest, current, nextV, loadCall, etl, pool, staging, projections,
              pmanifest, pc, callV, result, queue, copied, failed, faults, hist>>

\* get_partition_path of the first data point, then parse_partition_path of
\* the path it returned
ParsePartitionPathCall ==
    /\ pure.data # <<>>
    /\ pure' = [pure EXCEPT
                  !.fn = "parse_partition_path",
                  !.out = IF partition_path_accepts(pure.data[1])
                          THEN parse_partition_path(partition_path_str(pure.data[1]))
                          ELSE ValueError]
    /\ UNCHANGED pureRest

\* group_by_partition(data)
GroupByPartitionCall ==
    /\ pure' = [pure EXCEPT !.fn = "group_by_partition",
                            !.out = grouped_by_partition(pure.data)]
    /\ UNCHANGED pureRest

\* create_manifest(version_id, dataset_id, data, ...)
CreateManifestCall ==
    /\ pure' = [pure EXCEPT !.fn = "create_manifest",
                            !.out = create_manifest(pure.data)]
    /\ UNCHANGED pureRest

NextPure ==
    \/ ParsePartitionPathCall
    \/ GroupByPartitionCall
    \/ CreateManifestCall

SpecPure == InitPure /\ [][NextPure]_vars

\* ------------------------------------------------------ ETLUseCase.execute
\* what an earlier execute loaded in the states InitETL starts from
EtlSeed == CHOOSE d \in LoadInputs : Len(d) = 1 /\ d[1].obs_time = ObsOrder[1]

\* the files of EtlSeed as load uploads them
SeedFiles ==
    [k \in KeySet |-> IF k \in SeqToSet(write_to_parquet(EtlSeed))
                      THEN Obj(group_by_partition(EtlSeed, k[1])) ELSE NoObj]

\* a behaviour of the ETL specification is one execute call; the store it
\* finds is "fresh" (nothing yet), "projected" (an earlier execute published
\* version 1 from EtlSeed and folded it), or "interrupted" (an earlier execute
\* published version 1 and its fold raised after the copy to staging)
EtlPreStates == {"fresh", "projected", "interrupted"}

InitETL ==
    /\ \E pre \in EtlPreStates :
          /\ vdata = [v \in VersionIds |->
                         IF pre # "fresh" /\ v = 1 THEN SeedFiles ELSE EmptyStore]
          /\ vmanifest = [v \in VersionIds |->
                             IF pre # "fresh" /\ v = 1
                             THEN [present |-> TRUE,
                                   parquet_files |-> write_to_parquet(EtlSeed)]
                             ELSE NoVersionManifest]
          /\ current = IF pre = "fresh" THEN 0 ELSE 1
          /\ loadCall = IF pre = "fresh" THEN NoLoadCall
                        ELSE [version_id |-> 1, data |-> EtlSeed, minted |-> <<1>>]
          /\ staging = IF pre = "interrupted" THEN SeedFiles ELSE EmptyStore
          /\ projections = IF pre = "projected" THEN SeedFiles ELSE EmptyStore
          /\ pmanifest = IF pre = "projected"
                         THEN add_projected_version(NoManifest, 1) ELSE NoManifest
          /\ \E c \in EtlConfigs :
                LET saved == IF c.state_manager /\ pre # "fresh"
                             THEN Rank(EtlSeed[1].obs_time) ELSE 0
                IN etl = [NoEtl EXCEPT !.cfg = c, !.state = saved, !.state0 = saved]
    /\ nextV = 1
    /\ pure = NoPure
    /\ pool = NoPool
    /\ pc = "done"
    /\ callV = 0
    /\ result = "none"
    /\ queue = <<>>
    /\ copied = <<>>
    /\ failed = FALSE
    /\ faults = 0
    /\ hist = NoHist

etlRest == <<vdata, vmanifest, current, nextV, loadCall, pure, pool, staging, projections,
             pmanifest, pc, callV, result, queue, copied, failed, faults, hist>>

\* another process takes or gives back the lock of the same key
OtherAcquire ==
    /\ etl.cfg.lock_manager
    /\ etl.lock = "free"
    /\ etl' = [etl EXCEPT !.lock = "other"]
    /\ UNCHANGED etlRest

OtherRelease ==
    /\ etl.lock = "other"
    /\ etl' = [etl EXCEPT !.lock = "free"]
    /\ UNCHANGED etlRest

\* entry of execute: lock_key = None, then the key of the configuration when
\* a lock manager is configured
EtlExecute ==
    /\ etl.pc = "idle"
    /\ pc = "done"
    /\ etl' = [etl EXCEPT
                 !.pc = IF etl.cfg.lock_manager THEN "acquire" ELSE "extract",
                 !.lock_key = IF etl.cfg.lock_manager
                              THEN lock_config_get_key(etl.cfg.key) ELSE NoneVal,
                 !.acquired = FALSE, !.released = 0, !.released_key = NoneVal,
                 !.notified = 0, !.ran = FALSE, !.exc = FALSE, !.outcome = "none"]
    /\ UNCHANGED etlRest

\* variant of EtlAcquire: a refused lock is handled inside the try, so the
\* finally runs
EtlAcquire_finally ==
    /\ etl.pc = "acquire"
    /\ \/ /\ etl.lock = "free"
          /\ etl' = [etl EXCEPT !.lock = "held", !.acquired = TRUE, !.pc = "extract"]
       \/ /\ etl.lock # "free"
          /\ etl' = [etl EXCEPT !.pc = "finally", !.exc = TRUE]
    /\ UNCHANGED etlRest

\* variant of EtlAcquire: the answer of acquire is not looked at
EtlAcquire_ignore ==
    /\ etl.pc = "acquire"
    /\ \/ /\ etl.lock = "free"
          /\ etl' = [etl EXCEPT !.lock = "held", !.acquired = TRUE, !.pc = "extract"]
       \/ /\ etl.lock # "free"
          /\ etl' = [etl EXCEPT !.pc = "extract"]
    /\ UNCHANGED etlRest

\* lock_manager.acquire(lock_key, timeout_seconds): True takes the lock, False
\* raises RuntimeError before the try
EtlAcquire ==
    /\ etl.pc = "acquire"
    /\ \/ /\ etl.lock = "free"
          /\ etl' = [etl EXCEPT !.lock = "held", !.acquired = TRUE, !.pc = "extract"]
       \/ /\ etl.lock # "free"
          /\ etl' = [etl EXCEPT !.pc = "ended", !.outcome = "RuntimeError"]
    /\ UNCHANGED etlRest

EtlSteps == <<"extract", "parse", "normalize", "transform", "load">>

StepAfter(p) == EtlSteps[(CHOOSE i \in 1..Len(EtlSteps) : EtlSteps[i] = p) + 1]

\* the parser with series_last_dates: the observations of the source later
\* than last_date (all of them when there is none)
parse(last_date) ==
    {d \in LoadInputs : \A i \in 1..Len(d) : Rank(d[i].obs_time) > last_date}

\* StateManager.save_dates_from_data: the max date of the series in data
save_dates_from_data(state, data) ==
    IF data = <<>> THEN state
    ELSE CHOOSE r \in {Rank(data[i].obs_time) : i \in 1..Len(data)} :
            \A i \in 1..Len(data) : Rank(data[i].obs_time) <= r

\* extract, parse, normalize, transform: each runs its collaborator, which
\* returns or raises. Before the parse _load_state reads the state (an error
\* of the state manager is logged and read as no state); after the normalize
\* the state manager saves the dates of the normalized data
EtlStep ==
    /\ etl.pc \in {"extract", "parse", "normalize", "transform"}
    /\ \/ /\ etl.pc \in {"extract", "transform"}
          /\ etl' = [etl EXCEPT !.pc = StepAfter(etl.pc), !.ran = TRUE]
       \/ /\ etl.pc = "parse"
          /\ \E series_last_dates \in (IF etl.cfg.state_manager THEN {etl.state, 0} ELSE {0}) :
                \E data \in parse(series_last_dates) :
                   etl' = [etl EXCEPT !.pc = StepAfter(etl.pc), !.ran = TRUE, !.data = data]
       \/ /\ etl.pc = "normalize"
          /\ etl' = [etl EXCEPT
                       !.pc = StepAfter(etl.pc),
                       !.ran = TRUE,
                       !.state = IF etl.cfg.state_manager
                                 THEN save_dates_from_data(etl.state, etl.data) ELSE @]
       \/ etl' = [etl EXCEPT !.pc = "finally", !.ran = TRUE, !.exc = TRUE]
    /\ UNCHANGED etlRest

\* _execute_load up to the call of loader.load
EtlLoadCall ==
    /\ etl.pc = "load"
    /\ pc = "done"
    /\ IF etl.cfg.loader
       THEN /\ etl' = [etl EXCEPT !.pc = "in_load"]
            /\ result' = "pending"
       ELSE /\ etl' = [etl EXCEPT !.pc = "finally"]
            /\ UNCHANGED result
    /\ UNCHANGED <<vdata, vmanifest, current, nextV, loadCall, pure, pool, staging, projections,
                   pmanifest, pc, callV, queue, copied, failed, faults, hist>>

\* loader.load has returned or raised
EtlLoadReturn ==
    /\ etl.pc = "in_load"
    /\ pc = "done"
    /\ result \in {"returned", "raised"}
    /\ etl' = [etl EXCEPT
                 !.pc = IF result = "returned" /\ etl.cfg.projection_use_case
                        THEN "get_current" ELSE "finally",
                 !.exc = (result = "raised")]
    /\ UNCHANGED etlRest

\* _execute_projection: _get_current_version_id, then execute_projection of
\* the current version
EtlGetCurrent ==
    /\ etl.pc = "get_current"
    /\ \/ /\ current # 0
          /\ etl' = [etl EXCEPT !.pc = "in_project"]
          /\ result' = "pending"
       \/ /\ current = 0
          /\ etl' = [etl EXCEPT !.pc = "finally"]
          /\ UNCHANGED result
       \/ /\ etl' = [etl EXCEPT !.pc = "finally", !.exc = TRUE]
          /\ UNCHANGED result
    /\ UNCHANGED <<vdata, vmanifest, current, nextV, loadCall, pure, pool, staging, projections,
                   pmanifest, pc, callV, queue, copied, failed, faults, hist>>

\* variant of _notify_if_configured: the notification is sent whatever
\* project_version returned
EtlProjectReturn_always ==
    /\ etl.pc = "in_project"
    /\ pc = "done"
    /\ result \in {"True", "False", "raised", "ValueError"}
    /\ etl' = [etl EXCEPT
                 !.pc = "finally",
                 !.exc = (result \in {"raised", "ValueError"}),
                 !.notified = IF result \in {"True", "False"} /\ etl.cfg.notification_service
                              THEN etl.notified + 1 ELSE etl.notified]
    /\ UNCHANGED etlRest

\* execute_projection after project_version: _notify_if_configured on True
\* (notify_projection_update swallows a failure of the publish), re-raise on
\* an exception
EtlProjectReturn ==
    /\ etl.pc = "in_project"
    /\ pc = "done"
    /\ result \in {"True", "False", "raised", "ValueError"}
    /\ etl' = [etl EXCEPT
                 !.pc = "finally",
                 !.exc = (result \in {"raised", "ValueError"}),
                 !.notified = IF result = "True" /\ etl.cfg.notification_service
                              THEN etl.notified + 1 ELSE etl.notified]
    /\ UNCHANGED etlRest

\* the finally of execute: release(lock_key) if self._lock_manager and lock_key
EtlFinally ==
    /\ etl.pc = "finally"
    /\ LET releases == etl.cfg.lock_manager /\ Truthy(etl.lock_key)
       IN etl' = [etl EXCEPT
                    !.pc = "ended",
                    !.outcome = IF etl.exc THEN "raised" ELSE "returned",
                    !.lock = IF releases THEN "free" ELSE etl.lock,
                    !.released = IF releases THEN etl.released + 1 ELSE etl.released,
                    !.released_key = IF releases THEN etl.lock_key ELSE etl.released_key]
    /\ UNCHANGED etlRest

NextETL ==
    \/ OtherAcquire
    \/ OtherRelease
    \/ Tick
    \/ EtlExecute
    \/ EtlAcquire
    \/ EtlStep
    \/ EtlLoadCall
    \/ etl.pc = "in_load" /\ result = "pending" /\ LoadStart(etl.data)
    \/ LoadUpload
    \/ LoadSaveManifest
    \/ LoadSetCurrent
    \/ EtlLoadReturn
    \/ EtlGetCurrent
    \/ etl.pc = "in_project" /\ result = "pending" /\ StartProject(current)
    \/ CheckIdempotency
    \/ LoadManifest
    \/ ClearStagingList
    \/ ClearStagingDelete
    \/ CopyToStaging
    \/ MergeList
    \/ MergePartition
    \/ MoveList
    \/ MoveCopy
    \/ MoveRollback
    \/ MoveReraise
    \/ MoveDeleteStaging
    \/ RecordProjected
    \/ EtlProjectReturn
    \/ EtlFinally

SpecETL == InitETL /\ [][NextETL]_vars

\* --------------------------------------- cycle after cycle, and other writers
\* the dataset is new, the use case loads and projects; with and without a
\* lock manager
InitCycles ==
    /\ InitETL
    /\ current = 0
    /\ etl.cfg.projection_use_case
    /\ ~etl.cfg.notification_service
    /\ ~etl.cfg.state_manager
    /\ etl.cfg.key = "default"

\* the load of another process's execute on the same dataset: a version is
\* minted, written and made current. A process that shares the lock manager
\* only writes while it holds the lock
OtherLoad ==
    /\ pc = "done"
    /\ etl.cfg.lock_manager => etl.lock = "other"
    /\ LET version_id == create_new_version(nextV)
       IN /\ vdata' = [vdata EXCEPT ![version_id] = SeedFiles]
          /\ vmanifest' = [vmanifest EXCEPT ![version_id] =
                              [present |-> TRUE,
                               parquet_files |-> write_to_parquet(EtlSeed)]]
          /\ current' = version_id
    /\ UNCHANGED <<nextV, loadCall, etl, pure, pool, staging, projections, pmanifest, pc, callV,
                   result, queue, copied, failed, faults, hist>>

\* the scheduler starts the next cycle (while the clock can still mint a
\* version for it)
EtlRestart ==
    /\ etl.pc = "ended"
    /\ Len(loadCall.minted) < MaxVersions
    /\ etl' = [etl EXCEPT !.pc = "idle", !.data = <<>>, !.state0 = etl.state]
    /\ UNCHANGED etlRest

\* the source serves the one observation of EtlSeed to every cycle
NextCycles ==
    \/ NextETL /\ etl'.data \in {<<>>, EtlSeed}
    \/ OtherLoad
    \/ EtlRestart

SpecCycles == InitCycles /\ [][NextCycles]_vars

\* the cycles keep running: a step of execute, of its load or of its fold
\* that can be taken is eventually taken
FairCycles ==
    SpecCycles /\ WF_vars(NextCycles /\ (etl'.pc # etl.pc \/ pc' # pc \/ queue' # queue))

\* ------------------------------------------------- the three object readers
\* what get_object raises: NoSuchKey for an object that does not exist, any
\* other code for a failing store
ClientError(code) == [kind |-> "ClientError", code |-> code]

\* variant of on_client_error: every error of the store is taken for a
\* missing object
on_client_error_any(code) == PyNone

\* the except clause the three readers share: NoSuchKey is the value None,
\* any other error is re-raised
on_client_error(code) ==
    IF code = "NoSuchKey" THEN PyNone ELSE ClientError(code)

\* one VersionManager.get_current_version(dataset_id) call
GetCurrentVersionCall ==
    /\ pc = "done"
    /\ callV' = 0
    /\ \/ /\ current # 0
          /\ pure' = [pure EXCEPT !.fn = "get_current_version",
                                  !.out = [kind |-> "version_id", value |-> current]]
          /\ UNCHANGED faults
       \/ /\ current = 0
          /\ pure' = [pure EXCEPT !.fn = "get_current_version",
                                  !.out = on_client_error("NoSuchKey")]
          /\ UNCHANGED faults
       \/ /\ CanFault
          /\ faults' = faults + 1
          /\ pure' = [pure EXCEPT !.fn = "get_current_version",
                                  !.out = on_client_error("AccessDenied")]
    /\ UNCHANGED <<vdata, vmanifest, current, nextV, loadCall, etl, pool, staging, projections,
                   pmanifest, pc, result, queue, copied, failed, hist>>

\* one ManifestManager.load_manifest(dataset_id, version_id) call
LoadManifestCall(version_id) ==
    /\ pc = "done"
    /\ callV' = version_id
    /\ \/ /\ vmanifest[version_id].present
          /\ pure' = [pure EXCEPT !.fn = "load_manifest",
                                  !.out = [kind |-> "manifest",
                                           value |-> vmanifest[version_id]]]
          /\ UNCHANGED faults
       \/ /\ ~vmanifest[version_id].present
          /\ pure' = [pure EXCEPT !.fn = "load_manifest",
                                  !.out = on_client_error("NoSuchKey")]
          /\ UNCHANGED faults
       \/ /\ CanFault
          /\ faults' = faults + 1
          /\ pure' = [pure EXCEPT !.fn = "load_manifest",
                                  !.out = on_client_error("AccessDenied")]
    /\ UNCHANGED <<vdata, vmanifest, current, nextV, loadCall, etl, pool, staging, projections,
                   pmanifest, pc, result, queue, copied, failed, hist>>

\* one ProjectionManifestManager._load_manifest(dataset_id) call
LoadProjectionManifestCall ==
    /\ pc = "done"
    /\ callV' = 0
    /\ \/ /\ pmanifest.present
          /\ pure' = [pure EXCEPT !.fn = "_load_manifest",
                                  !.out = [kind |-> "manifest", value |-> pmanifest]]
          /\ UNCHANGED faults
       \/ /\ ~pmanifest.present
          /\ pure' = [pure EXCEPT !.fn = "_load_manifest",
                                  !.out = on_client_error("NoSuchKey")]
          /\ UNCHANGED faults
       \/ /\ CanFault
          /\ faults' = faults + 1
          /\ pure' = [pure EXCEPT !.fn = "_load_manifest",
                                  !.out = on_client_error("AccessDenied")]
    /\ UNCHANGED <<vdata, vmanifest, current, nextV, loadCall, etl, pool, staging, projections,
                   pmanifest, pc, result, queue, copied, failed, hist>>

\* the readers called at any moment between publishes (of the same one
\* data point) and manifest updates
NextRead ==
    \/ Load(EtlSeed)
    \/ \E version_id \in VersionIds : AddProjectedVersionCall(version_id)
    \/ GetCurrentVersionCall
    \/ \E version_id \in VersionIds : LoadManifestCall(version_id)
    \/ LoadProjectionManifestCall

SpecRead == Init /\ [][NextRead]_vars

\* ------------------------------------- the two batches on several workers
\* what a version of two partitions was loaded from
PoolSeed ==
    CHOOSE d \in LoadInputs :
        Len(d) = 2 /\ d[1].obs_time = ObsOrder[1] /\ d[2].obs_time = ObsOrder[Len(ObsOrder)]

\* a data.json of a partition: absent, or one record of the partition
PoolObjs(p) ==
    {NoObj} \cup {Obj(<<r>>) : r \in {x \in DataPoints : /\ get_partition_path(x) = p
                                                       /\ x.obs_time \in SeqToSet(
                                                            [i \in 1..Len(PoolSeed) |-> PoolSeed[i].obs_time])}}

\* the namespaces a batch is started on: a data.json in each partition
PoolStores ==
    {[EmptyStore EXCEPT ![_build_staging_file_key(Parts[1])] = a,
                        ![_build_staging_file_key(Parts[Len(Parts)])] = b] :
        a \in PoolObjs(Parts[1]), b \in PoolObjs(Parts[Len(Parts)])}

\* one published version of two files, staging and projections as left by
\* earlier runs, and the two pool sizes of the configuration
InitPool ==
    /\ vdata = [v \in VersionIds |->
                  IF v = 1
                  THEN [k \in KeySet |->
                          IF k \in SeqToSet(write_to_parquet(PoolSeed))
                          THEN Obj(group_by_partition(PoolSeed, k[1])) ELSE NoObj]
                  ELSE EmptyStore]
    /\ vmanifest = [v \in VersionIds |->
                      IF v = 1
                      THEN [present |-> TRUE, parquet_files |-> write_to_parquet(PoolSeed)]
                      ELSE NoVersionManifest]
    /\ current = 1
    /\ nextV = 2
    /\ loadCall = NoLoadCall
    /\ etl = NoEtl
    /\ pure = NoPure
    /\ \E cw \in 1..MaxWorkers, mw \in 1..MaxWorkers :
          pool = [NoPool EXCEPT !.copy_workers = cw, !.merge_workers = mw]
    /\ staging \in PoolStores
    /\ projections \in PoolStores
    /\ pmanifest = NoManifest
    /\ pc = "done"
    /\ callV = 0
    /\ result = "none"
    /\ queue = <<>>
    /\ copied = <<>>
    /\ failed = FALSE
    /\ faults = 0
    /\ hist = NoHist

\* the futures of the batch: all items are submitted before any result is
\* looked at, so a batch that has just begun has every item pending
PoolStatus ==
    IF pool.status = <<>> THEN [i \in 1..Len(queue) |-> "pending"] ELSE pool.status

PoolRead ==
    IF pool.read = <<>>
    THEN [i \in 1..Len(queue) |-> [stg |-> EmptyStore, prj |-> EmptyStore]]
    ELSE pool.read

Pending == {i \in 1..Len(queue) : PoolStatus[i] = "pending"}
Running == {i \in 1..Len(queue) : PoolStatus[i] = "running"}

\* ThreadPoolExecutor(max_workers=...) of the running batch
max_workers == IF pc = "copy" THEN pool.copy_workers ELSE pool.merge_workers

\* an idle worker thread takes the oldest item of the work queue; a
\* merge_partition begins by reading its staging and its projection object
WorkerStart(i) ==
    /\ pc \in {"copy", "merge"}
    /\ i \in Pending
    /\ \A j \in Pending : i <= j
    /\ Cardinality(Running) < max_workers
    /\ pool' = [pool EXCEPT
                  !.status = [PoolStatus EXCEPT ![i] = "running"],
                  !.read = IF pc = "merge"
                           THEN [PoolRead EXCEPT ![i] = [stg |-> staging, prj |-> projections]]
                           ELSE @,
                  !.start = IF pool.status = <<>> THEN staging ELSE @]
    /\ UNCHANGED <<vdata, vmanifest, current, nextV, loadCall, etl, pure, projections, pmanifest, callV, hist,
                   staging, pc, result, queue, copied, failed, faults>>

\* variant of merge_partition_upload: the worker writes back the whole
\* staging namespace as it read it, with its partition merged
merge_partition_upload_whole(stg, read, p) == merge_partition(read.stg, read.prj, p)

\* variant of merge_partition_upload: the merged list is uploaded even when
\* it is empty
merge_partition_upload_empty(stg, read, p) ==
    LET staging_key     == _build_staging_file_key(p)
        projections_key == _build_projections_file_key(p)
        merged_data     == _merge_json_data(read.prj[projections_key], read.stg[staging_key])
    IN [stg EXCEPT ![staging_key] = Obj(merged_data)]

\* the end of ProjectionMerger.merge_partition: what was read is merged and,
\* if not empty, uploaded to the staging key of the partition
merge_partition_upload(stg, read, p) ==
    LET staging_key     == _build_staging_file_key(p)
        projections_key == _build_projections_file_key(p)
        merged_data     == _merge_json_data(read.prj[projections_key], read.stg[staging_key])
    IN IF merged_data # <<>>
       THEN [stg EXCEPT ![staging_key] = Obj(merged_data)]
       ELSE stg

\* variant of PoolExit: the stage is left as soon as no item waits in the
\* work queue
PoolExit_nowait ==
    /\ pc \in {"copy", "merge"}
    /\ queue # <<>>
    /\ Pending = {}
    /\ IF \E i \in 1..Len(queue) : PoolStatus[i] = "failed"
       THEN Raise
       ELSE IF pc = "copy"
            THEN /\ pc' = "merge_list"
                 /\ queue' = <<>>
                 /\ UNCHANGED <<result, copied, failed, faults>>
            ELSE IF callV = 0
                 THEN Return("returned")
                 ELSE /\ pc' = "move_list"
                      /\ queue' = <<>>
                      /\ UNCHANGED <<result, copied, failed, faults>>
    /\ pool' = [pool EXCEPT !.status = <<>>, !.read = <<>>, !.start = EmptyStore]
    /\ UNCHANGED <<vdata, vmanifest, current, nextV, loadCall, etl, pure, projections, pmanifest, callV, hist,
                   staging>>

\* a worker finishes its item: the copy_object of _copy_single_file or the
\* upload of merge_partition is done, or the item raises
WorkerFinish(i) ==
    /\ pc \in {"copy", "merge"}
    /\ i \in Running
    /\ \/ /\ staging' = IF pc = "copy"
                        THEN _copy_s3_object(vdata[callV], staging, queue[i],
                                             _build_staging_file_path(queue[i]))
                        ELSE merge_partition_upload(staging, pool.read[i], queue[i])
          /\ pool' = [pool EXCEPT !.status[i] = "done"]
          /\ UNCHANGED faults
       \/ /\ CanFault
          /\ faults' = faults + 1
          /\ pool' = [pool EXCEPT !.status[i] = "failed"]
          /\ UNCHANGED staging
    /\ UNCHANGED <<vdata, vmanifest, current, nextV, loadCall, etl, pure, projections, pmanifest, callV, hist,
                   pc, result, queue, copied, failed>>

\* the with block of the executor is left (shutdown(wait=True), nothing is
\* cancelled): every submitted item has run; an error of an item is raised,
\* otherwise the next stage begins, or merge_all_partitions returns
PoolExit ==
    /\ pc \in {"copy", "merge"}
    /\ queue # <<>>
    /\ Pending = {}
    /\ Running = {}
    /\ IF \E i \in 1..Len(queue) : PoolStatus[i] = "failed"
       THEN Raise
       ELSE IF pc = "copy"
            THEN /\ pc' = "merge_list"
                 /\ queue' = <<>>
                 /\ UNCHANGED <<result, copied, failed, faults>>
            ELSE IF callV = 0
                 THEN Return("returned")
                 ELSE /\ pc' = "move_list"
                      /\ queue' = <<>>
                      /\ UNCHANGED <<result, copied, failed, faults>>
    /\ pool' = [pool EXCEPT !.status = <<>>, !.read = <<>>, !.start = EmptyStore]
    /\ UNCHANGED <<vdata, vmanifest, current, nextV, loadCall, etl, pure, projections, pmanifest, callV, hist,
                   staging>>

\* a call of ProjectionMerger.merge_all_partitions(dataset_id) on its own
MergeAllPartitionsCall ==
    /\ pc = "done"
    /\ callV' = 0
    /\ \/ /\ list_staging_partitions(staging) # <<>>
          /\ pc' = "merge"
          /\ queue' = list_staging_partitions(staging)
          /\ result' = "pending"
          /\ UNCHANGED faults
       \/ /\ list_staging_partitions(staging) = <<>>
          /\ result' = "returned"
          /\ UNCHANGED <<pc, queue, faults>>
       \/ /\ CanFault
          /\ result' = "raised"
          /\ UNCHANGED <<pc, queue, faults>>
    /\ UNCHANGED <<storeVars, staging, projections, pmanifest, copied, failed, hist>>

NextPool ==
    \/ StartProject(current)
    \/ MergeAllPartitionsCall
    \/ CheckIdempotency
    \/ LoadManifest
    \/ ClearStagingList
    \/ ClearStagingDelete
    \/ \E i \in 1..Len(Parts) : WorkerStart(i)
    \/ \E i \in 1..Len(Parts) : WorkerFinish(i)
    \/ PoolExit
    \/ MergeList
    \/ MoveList
    \/ MoveCopy
    \/ MoveRollback
    \/ MoveReraise
    \/ MoveDeleteStaging
    \/ RecordProjected

SpecPool == InitPool /\ [][NextPool]_vars

\* ------------------------------ concurrent callers of add_projected_version
\* processes that call add_projected_version on the same dataset; pool.status
\* and pool.read hold, per caller, where its call is and what it loaded
Callers == 1..2

\* the first half of add_projected_version: _load_manifest (a failing
\* get_object raises and leaves everything as it is)
AddLoad(c, version_id) ==
    /\ pc = "done"
    /\ IF pool.status = <<>> THEN TRUE ELSE pool.status[c] # "running"
    /\ pool' = [pool EXCEPT
                  !.status = [i \in Callers |->
                                IF i = c THEN "running"
                                ELSE IF pool.status = <<>> THEN "pending" ELSE pool.status[i]],
                  !.read = [i \in Callers |->
                              IF i = c THEN [manifest |-> pmanifest, version_id |-> version_id]
                              ELSE IF pool.read = <<>>
                                   THEN [manifest |-> NoManifest, version_id |-> 0]
                                   ELSE pool.read[i]]]
    /\ UNCHANGED <<vdata, vmanifest, current, nextV, loadCall, etl, pure, staging, projections,
                   pmanifest, pc, callV, result, queue, copied, failed, faults, hist>>

\* the second half: append to what was loaded, stamp, _save_manifest (an
\* unconditional put_object)
AddSave(c) ==
    /\ pc = "done"
    /\ pool.status # <<>>
    /\ pool.status[c] = "running"
    /\ callV' = pool.read[c].version_id
    /\ \/ /\ pmanifest' = add_projected_version(pool.read[c].manifest, pool.read[c].version_id)
          /\ hist' = [hist EXCEPT !.added = @ \cup {pool.read[c].version_id}]
          /\ pool' = [pool EXCEPT !.status[c] = "done"]
          /\ result' = "returned"
       \/ /\ CanFault
          /\ pool' = [pool EXCEPT !.status[c] = "failed"]
          /\ result' = "raised"
          /\ UNCHANGED <<pmanifest, hist>>
    /\ UNCHANGED <<vdata, vmanifest, current, nextV, loadCall, etl, pure, staging, projections,
                   pc, queue, copied, failed, faults>>

NextAdders ==
    \/ \E c \in Callers, version_id \in VersionIds : AddLoad(c, version_id)
    \/ \E c \in Callers : AddSave(c)

SpecAdders == Init /\ [][NextAdders]_vars

\* ---------------------------------------------------------------- C8
\* the (obs_time, internal_series_code) pair of a record
RecKey(r) == <<r.obs_time, r.internal_series_code>>

KeysOf(body) == {RecKey(body[i]) : i \in 1..Len(body)}

\* index of the first record of body with key k
FirstIdx(body, k) == CHOOSE i \in 1..Len(body) :
                        /\ RecKey(body[i]) = k
                        /\ \A j \in 1..(i - 1) : RecKey(body[j]) # k

\* out keeps exactly the first occurrence of every key of c, in the order of c
KeepsFirstInOrder(c, out) ==
    LET firsts == {i \in 1..Len(c) : \A j \in 1..(i - 1) : RecKey(c[j]) # RecKey(c[i])}
    IN /\ Len(out) = Cardinality(firsts)
       /\ \A i \in firsts :
             out[Cardinality({j \in firsts : j <= i})] = c[i]

\* C8: merge precedence. When both record sets are present, the merged
\* result is the concatenation projection-then-staging with the first
\* occurrence of each key kept in order; a key held by both sides occurs in
\* it exactly once and with the record the projection holds for it.
C8_MergePrecedence ==
    (hist.merges = 1 /\ hist.mergeIn.prj.present /\ hist.mergeIn.stg.present) =>
        LET prj == hist.mergeIn.prj.body
            stg == hist.mergeIn.stg.body
            out == hist.mergeOut
        IN /\ KeepsFirstInOrder(prj \o stg, out)
           /\ \A k \in KeysOf(prj) \cap KeysOf(stg) :
                 /\ Cardinality({i \in 1..Len(out) : RecKey(out[i]) = k}) = 1
                 /\ \E i \in 1..Len(out) : out[i] = prj[FirstIdx(prj, k)]

\* a merge ran on a key the projection holds with value A and staging with value B
C8_Witness ==
    /\ hist.merges = 1
    /\ hist.mergeIn.prj.present
    /\ hist.mergeIn.stg.present
    /\ \E i \in 1..Len(hist.mergeIn.prj.body), j \in 1..Len(hist.mergeIn.stg.body) :
          /\ RecKey(hist.mergeIn.prj.body[i]) = RecKey(hist.mergeIn.stg.body[j])
          /\ hist.mergeIn.prj.body[i].value = "A"
          /\ hist.mergeIn.stg.body[j].value = "B"
    /\ Len(hist.mergeOut) = 1
    /\ hist.mergeOut[1].value = "A"

\* ---------------------------------------------------------------- C9
NoRepeatedKey(body) ==
    \A i, j \in 1..Len(body) : i # j => RecKey(body[i]) # RecKey(body[j])

\* C9: invariant (d). The record set a merge produces for a partition never
\* holds two records with the same (obs_time, internal_series_code) pair,
\* whichever of the two inputs is absent.
C9_MergedHasNoRepeatedKey ==
    hist.merges = 1 => NoRepeatedKey(hist.mergeOut)

\* ------------------------------------------------- claims on project_version
Listed(v) == pmanifest.present /\ \E i \in 1..Len(pmanifest.projected_versions) :
                                      pmanifest.projected_versions[i] = v

Ended == pc = "done" /\ result # "none"

\* ---------------------------------------------------------------- C1
\* C1: idempotency guard. A project_version call for a version the
\* projection manifest already lists takes one step only, step 1: that
\* step changes nothing in staging, the projection partitions or the
\* projection manifest and ends the call with False (it raises only if the
\* read of the manifest itself fails); a call that returned True leaves its
\* version listed, and a listed version stays listed whatever happens
\* afterwards.
C1_IdempotencyGuard ==
    /\ []((pc # "done" /\ hist.listedAtStart) => pc = "check")
    /\ []((Ended /\ result = "True") => Listed(callV))
    /\ []((Ended /\ hist.listedAtStart) =>
              result = (IF hist.checkFault THEN "raised" ELSE "False"))
    /\ [][(pc # "done" /\ hist.listedAtStart) =>
              /\ staging' = staging
              /\ projections' = projections
              /\ pmanifest' = pmanifest
              /\ pc' = "done"]_vars
    /\ [][\A v \in VersionIds : Listed(v) => Listed(v)']_vars

\* a version was folded, another fold followed, and a second call for the
\* first version was skipped
C1_Witness ==
    /\ Ended
    /\ hist.listedAtStart
    /\ result = "False"
    /\ Len(pmanifest.projected_versions) = 2
    /\ pmanifest.projected_versions[1] = callV

\* ---------------------------------------------------------------- C2
\* every file the fold had in staging is at its projection key, and the
\* files of the version's manifest were among them
FoldFilesPublished ==
    /\ \A k \in KeySet : hist.moveStaging[k].present => projections[k] = hist.moveStaging[k]
    /\ \A i \in 1..Len(vmanifest[callV].parquet_files) :
          LET f == vmanifest[callV].parquet_files[i]
          IN hist.moveStaging[f] = vdata[callV][f] /\ vdata[callV][f].present

\* C2: the projection manifest changes only by step 7 of a call whose
\* move_staging_to_projections has returned normally with every file of the
\* fold at its projection key, and the change lists the version of that call;
\* step 7 is never reached in any other way.
C2_RecordedOnlyAfterPublish ==
    /\ [](pc = "record" => (hist.moved /\ ~hist.moveRaised /\ FoldFilesPublished))
    /\ [][pmanifest' # pmanifest =>
            /\ pc = "record"
            /\ hist.moved
            /\ FoldFilesPublished
            /\ {v \in VersionIds : Listed(v)'} = {v \in VersionIds : Listed(v)} \cup {callV}]_vars

\* a version got recorded by a call whose staging cleanup had faulted
C2_Witness ==
    /\ Ended
    /\ result = "True"
    /\ Listed(callV)
    /\ hist.moved
    /\ \E k \in KeySet : staging[k].present

\* ---------------------------------------------------------------- C3
\* C3 as stated: at the end of a call in which all of the version's data was
\* published, the version is listed
C3_Original ==
    (Ended /\ hist.moved /\ FoldFilesPublished) => Listed(callV)

\* C3: at the end of a project_version call whose atomic publish completed,
\* the version is listed in projected_versions and the call returned True,
\* unless add_projected_version itself raised.
C3_ListedAfterPublish ==
    (Ended /\ hist.moved /\ ~hist.recordFault) => (Listed(callV) /\ result = "True")

\* a call published and recorded a version that was not listed before
C3_Witness ==
    /\ Ended
    /\ hist.moved
    /\ ~hist.recordFault
    /\ ~hist.listedAtStart
    /\ Listed(callV)

\* ---------------------------------------------------------------- C4
\* move_staging_to_projections has started (and possibly ended) in this call
MoveStarted ==
    \/ pc \in {"move_copy", "move_rollback", "move_delete", "record"}
    \/ pc = "done" /\ (hist.moved \/ hist.moveRaised)

\* the keys the move publishes
Touched == {k \in KeySet : hist.moveStaging[k].present}

\* C4: atomic publish. In every state from the start of
\* move_staging_to_projections on, the projection objects the fold touches
\* are all at their pre-fold content or all at their post-fold content.
C4_AtomicPublish ==
    MoveStarted =>
        \/ \A k \in Touched : projections[k] = hist.preProj[k]
        \/ \A k \in Touched : projections[k] = hist.moveStaging[k]

\* ---------------------------------------------------------------- C5
\* the move re-raised after a copy failed
CopyFailed == Ended /\ hist.moveRaised /\ hist.copyFailAt >= 0

\* all M staging objects are there unchanged and none of the N copied
\* objects is in the projection
RolledBack ==
    /\ staging = hist.moveStaging
    /\ \A i \in 1..hist.copyFailAt :
          ~projections[_list_s3_keys(hist.moveStaging)[i]].present

\* C5 as stated: whenever the move re-raises after a failed copy
C5_Original == CopyFailed => RolledBack

\* C5: rollback completeness, provided every rollback delete succeeded.
C5_RollbackComplete == (CopyFailed /\ ~hist.rollbackFault) => RolledBack

\* a copy failed after at least one file was copied and the rollback went through
C5_Witness ==
    /\ CopyFailed
    /\ hist.copyFailAt >= 1
    /\ ~hist.rollbackFault
    /\ Cardinality(Touched) > hist.copyFailAt

\* ---------------------------------------------------------------- C6
\* C6: after a failed copy whose rollback deletes succeeded, the projection
\* namespace is exactly what it was before the call and staging is untouched.
C6_ProjectionRestored ==
    (CopyFailed /\ ~hist.rollbackFault) =>
        /\ projections = hist.preProj
        /\ staging = hist.moveStaging

\* ---------------------------------------------------------------- C7
\* record keys held by the objects of partition p
PartitionKeys(store, p) ==
    UNION {KeysOf(store[k].body) : k \in {x \in KeySet : x[1] = p /\ store[x].present}}

\* C7: a successful fold never drops a record key that the projection held,
\* before the fold, in a partition the version has a file for.
C7_FoldKeepsProjectionKeys ==
    (Ended /\ result = "True") =>
        \A i \in 1..Len(vmanifest[callV].parquet_files) :
            LET p == vmanifest[callV].parquet_files[i][1]
            IN PartitionKeys(hist.preProj, p) \subseteq PartitionKeys(projections, p)

\* ---------------------------------------------------------------- C10
\* C10: re-fold safety. A retry of a fold that had published and then failed
\* to record is not skipped; when it returns True it has published again,
\* the projection is object for object what the first publish left, and the
\* version is listed.
C10_RefoldSafe ==
    /\ (Ended /\ hist.retry) => result # "False"
    /\ (Ended /\ hist.retry /\ result = "True") =>
          /\ hist.moved
          /\ projections = hist.preProj
          /\ Listed(callV)

\* a retry after publish-then-failed-record went through
C10_Witness ==
    /\ Ended
    /\ hist.retry
    /\ result = "True"
    /\ \E k \in KeySet : projections[k].present

\* --------------------------------------------------------------- C11
\* the files and the manifest of the call's version are all stored
Stored(v, data) ==
    /\ vmanifest[v].present
    /\ \A k \in SeqToSet(write_to_parquet(data)) : vdata[v][k].present

\* C11: invariant (b). In every state of a publish, after faults at any
\* step included, the current-version pointer is absent or names a version
\* whose manifest object exists; the pointer is written only by the last
\* step of load, after every data file and the manifest of that version were
\* stored; a load that raises leaves the pointer as it was.
C11_PointerNamesManifest ==
    /\ [](current = 0 \/ vmanifest[current].present)
    /\ [][current' # current =>
             /\ pc = "load_pointer"
             /\ current' = loadCall.version_id
             /\ Stored(loadCall.version_id, loadCall.data)
             /\ result' = "returned"]_vars
    /\ [][result' = "raised" => current' = current]_vars

\* a publish failed after uploading files of a new version, under a pointer
\* an earlier publish had set
C11_Witness ==
    /\ pc = "done" /\ result = "raised"
    /\ current # 0 /\ current # loadCall.version_id
    /\ ~vmanifest[loadCall.version_id].present
    /\ \E k \in KeySet : vdata[loadCall.version_id][k].present

\* --------------------------------------------------------------- C12
\* C12: invariant (a). Once the data files and the manifest of a version are
\* written, no later step of any load changes or deletes an object under
\* versions/{v}/, also when two loads read the same clock value.
C12_VersionImmutable ==
    [][\A v \in VersionIds :
          vmanifest[v].present =>
              /\ vmanifest'[v] = vmanifest[v]
              /\ \A k \in KeySet : vdata[v][k].present => vdata'[v][k] = vdata[v][k]]_vars

\* --------------------------------------------------------------- C13
\* C13: any two calls of create_new_version return distinct identifiers,
\* two calls that read the same clock value included.
C13_DistinctIds ==
    \A i, j \in 1..Len(loadCall.minted) :
        i # j => loadCall.minted[i] # loadCall.minted[j]

\* --------------------------------------------------------------- C14
\* the steps of a fold between CopyToStaging and the end of the publish
FoldStages == {"merge_list", "merge", "move_list", "move_copy", "move_delete"}

\* C14: staging never carries the data of an earlier fold into the next.
\* From the end of CopyToStaging on, every object in staging sits at the key
\* of a file of this call's version and is that file, and every object the
\* publish writes into the projection is the file of this call's version at
\* that key, whatever earlier folds (failed ones, and ones whose staging
\* cleanup failed, included) had left in staging.
C14_NoStaleStaging ==
    /\ [](pc \in FoldStages =>
            \A k \in KeySet : staging[k].present =>
                /\ k \in SeqToSet(vmanifest[callV].parquet_files)
                /\ staging[k] = vdata[callV][k])
    /\ [][pc = "move_copy" =>
            \A k \in KeySet : projections'[k] # projections[k] =>
                /\ k \in SeqToSet(vmanifest[callV].parquet_files)
                /\ projections'[k] = vdata[callV][k]]_vars

\* a fold published although an earlier fold had left, in staging, a file at
\* a key this fold's version does not have
C14_Witness ==
    /\ Ended
    /\ result = "True"
    /\ hist.staleStart
    /\ \E k \in KeySet : projections[k].present

\* --------------------------------------------------------------- C15
\* C15: a project_version call that got past ClearStaging, so that whatever
\* staging holds is of this fold, ends with staging empty, whether it ends
\* Published or Failed (a Skipped call puts nothing into staging).
C15_StagingEmptyAtEnd ==
    [][(pc' = "done" /\ pc \notin {"done", "check", "load_manifest", "clear", "clear_del",
                                   "load_upload", "load_save", "load_pointer"})
          => staging' = EmptyStore]_vars

\* --------------------------------------------------------------- C16
\* the call ends by raising
Raises == pc' = "done" /\ result' \in {"raised", "ValueError"}

\* C16: abort on fault. A store fault that does not end the call at once is
\* an item of the copy or merge batch (the batch is drained, then the call
\* raises), a copy of the publish (the rollback runs, then the call raises)
\* or one of the two best-effort deletes; after a fault in the batch or in
\* the publish no later step runs and the projection manifest is not
\* written; a call that raised in steps 2 to 6 has not listed its version.
C16_AbortOnFault ==
    /\ [][faults' > faults =>
             \/ pc \in {"copy", "merge"} /\ failed' /\ pc' = pc
             \/ pc = "move_copy" /\ pc' = "move_rollback"
             \/ pc \in {"move_rollback", "move_delete"}]_vars
    /\ [][failed =>
             /\ pc \in {"copy", "merge"}
             /\ pc' = pc \/ Raises
             /\ projections' = projections
             /\ pmanifest' = pmanifest]_vars
    /\ [][pc = "move_rollback" =>
             /\ pc' = pc \/ Raises
             /\ staging' = staging
             /\ pmanifest' = pmanifest]_vars
    /\ [][(pc # "done" /\ Raises) =>
             /\ pmanifest' = pmanifest
             /\ hist.listedAtStart \/ ~Listed(callV)]_vars

\* the first copy of a batch of two failed, the second ran, the call raised
\* and nothing later happened
C16_Witness ==
    /\ Ended
    /\ result = "raised"
    /\ Len(vmanifest[callV].parquet_files) = 2
    /\ ~staging[vmanifest[callV].parquet_files[1]].present
    /\ staging[vmanifest[callV].parquet_files[2]].present
    /\ projections = hist.preProj
    /\ ~Listed(callV)

\* --------------------------------------------------------------- C17
\* C17: a project_version call for a version that is not projected and has
\* no manifest ends, at step 2, with ValueError, and staging, the projection
\* partitions and the projection manifest are what they were.
C17_ManifestNotFound ==
    /\ [][(pc = "load_manifest" /\ ~vmanifest[callV].present /\ result' # "raised") =>
             /\ pc' = "done"
             /\ result' = "ValueError"
             /\ staging' = staging
             /\ projections' = projections
             /\ pmanifest' = pmanifest]_vars
    /\ [][result' = "ValueError" /\ result # "ValueError" =>
             /\ pc = "load_manifest" /\ ~vmanifest[callV].present
             /\ ~Listed(callV)
             /\ projections = hist.preProj]_vars

\* the call failed with ValueError while staging and the projection held
\* the files of earlier folds
C17_Witness ==
    /\ Ended
    /\ result = "ValueError"
    /\ ~vmanifest[callV].present
    /\ \E k \in KeySet : staging[k].present
    /\ \E k \in KeySet : projections[k].present
    /\ pmanifest.present

\* --------------------------------------------------------------- C18
\* C18: a call that passed CheckIdempotency and found the manifest of its
\* version has emptied staging before anything else; in particular a call
\* that returns False on a manifest listing no files leaves staging empty.
C18_ClearUnconditional ==
    (Ended /\ result = "False" /\ ~hist.listedAtStart) => staging = EmptyStore

\* --------------------------------------------------------------- C19
\* some object is left in staging
Orphans == \E k \in KeySet : staging[k].present

\* C19 as stated: a call whose move returned normally with staging files it
\* could not delete has recorded its version and returned True
C19_Original ==
    (Ended /\ hist.moved /\ Orphans) => (result = "True" /\ Listed(callV))

\* C19: staging cleanup failure is non-fatal. While the staging files are
\* deleted after a complete copy the call never ends and nothing but staging
\* changes, whether the deletes fail or not; the record step that follows
\* lists the version, orphans or not, unless the write of the projection
\* manifest itself raises; and every fold that starts to copy into staging
\* starts on an empty staging namespace, so that no orphan reaches a publish.
C19_CleanupNonFatal ==
    /\ [][pc = "move_delete" =>
             /\ pc' \in {"move_delete", "record"}
             /\ projections' = projections
             /\ pmanifest' = pmanifest
             /\ result' = result]_vars
    /\ [][(pc = "record" /\ Orphans /\ result' # "raised") =>
             /\ result' = "True"
             /\ Listed(callV)']_vars
    /\ []((pc = "copy" /\ ~failed /\ queue = vmanifest[callV].parquet_files)
             => staging = EmptyStore)

\* the move has returned normally with a staging file it could not delete
C19_Witness ==
    /\ pc = "record"
    /\ hist.moved
    /\ Orphans
    /\ faults > 0

\* --------------------------------------------------------------- C20
\* C20: postcondition of the move. When move_staging_to_projections has
\* returned normally, every object that was in staging is, with exactly its
\* content, at the same relative key of the projection, whatever was there
\* before; the other projection objects are untouched; when no staging
\* delete failed staging is empty; when staging was empty the call changed
\* nothing.
C20_MovePostcondition ==
    pc = "record" =>
        /\ hist.moved
        /\ \A k \in KeySet :
              projections[k] = (IF hist.moveStaging[k].present
                                THEN hist.moveStaging[k] ELSE hist.preProj[k])
        /\ faults = 0 => staging = EmptyStore
        /\ hist.moveStaging = EmptyStore =>
              staging = EmptyStore /\ projections = hist.preProj

\* the move replaced a projection object by a staging object of another
\* content and emptied staging
C20_Witness ==
    /\ pc = "record"
    /\ staging = EmptyStore
    /\ \E k \in KeySet :
          /\ hist.moveStaging[k].present
          /\ hist.preProj[k].present
          /\ hist.preProj[k] # hist.moveStaging[k]
          /\ projections[k] = hist.moveStaging[k]


\* ---------------------------------------------------------------- C21
\* execute_projection has project_version's answer and ends
ProjectionEnds == etl.pc = "in_project" /\ etl'.pc # "in_project"

\* C21: the notification collaborator is invoked exactly once by an
\* execute_projection call whose project_version returned True, not at all
\* when it returned False (skipped) or raised, and nowhere else
C21_NotifyOncePerNewFold ==
    [][/\ (ProjectionEnds /\ etl.cfg.notification_service)
            => etl'.notified = etl.notified + (IF result = "True" THEN 1 ELSE 0)
       /\ (etl'.notified # etl.notified)
            => ProjectionEnds /\ result = "True" /\ etl.notified = 0]_vars

C21_Witness ==
    /\ etl.pc = "finally"
    /\ result = "True"
    /\ etl.notified = 1
    /\ \E i \in 1..Len(pmanifest.projected_versions) : pmanifest.projected_versions[i] = callV

\* ---------------------------------------------------------------- C22
\* execute ends, by returning or raising
EtlEnds == etl.pc # "ended" /\ etl'.pc = "ended"

\* C22: whenever acquire returned True, release is called exactly once with
\* the same lock_key before execute ends, for every lock key
C22_ReleaseOnce ==
    [][(EtlEnds /\ etl.acquired)
          => etl'.released = 1 /\ etl'.released_key = etl.lock_key]_vars

\* ---------------------------------------------------------------- C23
storage == <<vdata, vmanifest, current, staging, projections, pmanifest>>

\* acquire is answered False: the lock is not free when execute asks for it
AcquireRefused == etl.pc = "acquire" /\ etl'.pc # "acquire" /\ etl.lock # "free"

\* C23: when acquire returns False, execute raises RuntimeError, no pipeline
\* step runs, storage is untouched and release is not called
C23_RefusedLock ==
    /\ [][AcquireRefused
            => /\ etl'.pc = "ended"
               /\ etl'.outcome = "RuntimeError"
               /\ etl'.lock = etl.lock
               /\ storage' = storage]_vars
    /\ []((etl.pc = "ended" /\ etl.outcome = "RuntimeError")
            => ~etl.ran /\ ~etl.acquired /\ etl.released = 0)

C23_Witness ==
    /\ etl.pc = "ended"
    /\ etl.outcome = "RuntimeError"
    /\ etl.lock = "other"
    /\ current = 1

\* ---------------------------------------------------------------- C24
\* C24: with a lock manager, every write to versioned storage, the pointer,
\* staging, the projection namespace and the projection manifest happens
\* inside load or the projection of an execute that holds the lock: after its
\* acquire returned True and before its release
C24_WritesUnderLock ==
    [][(storage' # storage /\ etl.cfg.lock_manager)
          => /\ etl.pc \in {"in_load", "in_project"}
             /\ etl.acquired
             /\ etl.released = 0
             /\ etl.lock = "held"
             /\ etl'.lock = "held"]_vars

C24_Witness ==
    /\ etl.cfg.lock_manager
    /\ etl.pc = "in_project"
    /\ etl.lock = "held"
    /\ etl.released = 0
    /\ pc = "record"
    /\ projections # hist.preProj
    /\ current = loadCall.version_id


\* ---------------------------------------------------------------- C25
NoDup(seq) == \A i, j \in 1..Len(seq) : i # j => seq[i] # seq[j]

\* C25: add_projected_version is an idempotent append. After any sequence of
\* calls the list holds each version at most once and exactly the versions
\* added; a call for a listed version leaves the list as it was, a call for a
\* new one appends it; last_projected_version is the version of the latest
\* call; is_version_projected answers True exactly for the added versions
\* (False for all when the manifest does not exist) and changes nothing
C25_IdempotentAppend ==
    /\ [](NoDup(pmanifest.projected_versions))
    /\ [](SeqToSet(pmanifest.projected_versions) = hist.added)
    /\ [](~pmanifest.present => hist.added = {})
    /\ [][result' = "returned"
            => /\ pmanifest'.present
               /\ pmanifest'.last_projected_version = callV'
               /\ pmanifest'.projected_versions =
                     IF callV' \in hist.added
                     THEN pmanifest.projected_versions
                     ELSE Append(pmanifest.projected_versions, callV')]_vars
    /\ [][result' \in {"True", "False"}
            => /\ (result' = "True") <=> (callV' \in hist.added)
               /\ pmanifest' = pmanifest]_vars

\* the latest call added again the version the list starts with
C25_Witness ==
    /\ result = "returned"
    /\ Len(pmanifest.projected_versions) >= 2
    /\ callV = pmanifest.projected_versions[1]
    /\ pmanifest.last_projected_version = callV


\* ---------------------------------------------------------------- C26
\* the versions that have a manifest object
StoredVersions == {v \in VersionIds : vmanifest[v].present}

\* the stored version create_new_version returned last
MostRecentStored ==
    LET minted == loadCall.minted
        last   == CHOOSE i \in 1..Len(minted) :
                     /\ minted[i] \in StoredVersions
                     /\ \A j \in (i + 1)..Len(minted) : minted[j] \notin StoredVersions
    IN minted[last]

\* C26: what list_versions returns is sorted descending and starts with the
\* most recently created of the stored versions
C26_MostRecentFirst ==
    (result = "listed" /\ StoredVersions # {})
        => /\ \A i, j \in 1..Len(hist.listing) : i < j => hist.listing[i] > hist.listing[j]
           /\ hist.listing # <<>>
           /\ hist.listing[1] = MostRecentStored

\* ---------------------------------------------------------------- C27
\* C27: list_versions returns exactly the versions that have a manifest
\* object, however many objects lie under the versions prefix
C27_ListsEveryVersion ==
    result = "listed" => SeqToSet(hist.listing) = StoredVersions


\* ---------------------------------------------------------------- C28
\* C28: for every data point get_partition_path accepts, parsing the path it
\* returns gives back the series key of the data point and the year and month
\* as the path renders them
C28_RoundTrip ==
    (pure.fn = "parse_partition_path" /\ partition_path_accepts(pure.data[1]))
        => /\ pure.out.kind = "dict"
           /\ pure.out.internal_series_code = pure.data[1].internal_series_code
           /\ pure.out.year = Str(str_int(YearOf(pure.data[1].obs_time.date)))
           /\ pure.out.month = Str(format_02d(MonthOf(pure.data[1].obs_time.date)))

\* ---------------------------------------------------------------- C29
\* number of indices of seq that hold x
Count(seq, x) == Cardinality({i \in 1..Len(seq) : seq[i] = x})

\* sub is seq restricted to the elements that satisfy nothing but position:
\* there is a strictly increasing map of the indices of sub into those of seq
IsSubsequence(sub, seq) ==
    \E f \in [1..Len(sub) -> 1..Len(seq)] :
        /\ \A i \in 1..Len(sub) : seq[f[i]] = sub[i]
        /\ \A i, j \in 1..Len(sub) : i < j => f[i] < f[j]

\* C29: the groups of group_by_partition cover the input without overlap:
\* every group sits under the path of each of its data points, keeps the
\* order of the input, and every data point occurs in the groups as often as
\* in the input, in the one group of its path
C29_CompleteCover ==
    (pure.fn = "group_by_partition" /\ pure.out.kind = "dict")
        => LET grouped == pure.out.groups
               data    == pure.data
           IN /\ \A p \in DOMAIN grouped :
                    /\ grouped[p] # <<>>
                    /\ \A j \in 1..Len(grouped[p]) : partition_path_str(grouped[p][j]) = p
                    /\ IsSubsequence(grouped[p], data)
              /\ \A i \in 1..Len(data) :
                    /\ partition_path_str(data[i]) \in DOMAIN grouped
                    /\ \A p \in DOMAIN grouped :
                          Count(grouped[p], data[i]) =
                             IF p = partition_path_str(data[i])
                             THEN Count(data, data[i]) ELSE 0

\* two different data points of one partition, in one group
C29_Witness ==
    /\ pure.fn = "group_by_partition"
    /\ pure.out.kind = "dict"
    /\ Len(pure.data) >= 2
    /\ pure.data[1] # pure.data[2]
    /\ partition_path_str(pure.data[1]) = partition_path_str(pure.data[2])
    /\ Len(pure.out.groups[partition_path_str(pure.data[1])]) >= 2

\* ---------------------------------------------------------------- C30
\* the series keys of data, None left out
SeriesKeysOf(data) ==
    {c \in SeriesCodes : c # PyNone /\ \E i \in 1..Len(data) : data[i].internal_series_code = c}

\* the renderings of the observation times of data that are datetimes
RenderedTimes(data) ==
    {Str(<<t>>) : t \in {d \in ObsTimes : \E i \in 1..Len(data) :
                            /\ data[i].obs_time.kind = "datetime"
                            /\ data[i].obs_time.date = d}}

\* C30: create_manifest aggregates its input and never raises:
\* data_points_count is the number of data points, series_codes the distinct
\* series keys in ascending order and series_count their number, min_obs_time
\* and max_obs_time the least and greatest observation time (min <= max), and
\* for empty input the counts are 0, the keys empty, the range and the
\* collection date None
C30_PureAggregation ==
    pure.fn = "create_manifest"
        => LET m    == pure.out
               data == pure.data
               lo   == m.date_range.min_obs_time
               hi   == m.date_range.max_obs_time
           IN /\ m.kind = "dict"
              /\ m.data_points_count = Len(data)
              /\ SeqToSet(m.series_codes) = SeriesKeysOf(data)
              /\ \A i, j \in 1..Len(m.series_codes) :
                    i < j => StrLess(m.series_codes[i].chars, m.series_codes[j].chars)
              /\ m.series_count = Cardinality(SeriesKeysOf(data))
              /\ IF RenderedTimes(data) = {}
                 THEN lo = PyNone /\ hi = PyNone
                 ELSE /\ lo \in RenderedTimes(data)
                      /\ hi \in RenderedTimes(data)
                      /\ \A t \in RenderedTimes(data) :
                            /\ Rank(lo.chars[1]) <= Rank(t.chars[1])
                            /\ Rank(t.chars[1]) <= Rank(hi.chars[1])
              /\ data = <<>> => /\ m.data_points_count = 0
                                /\ m.series_count = 0
                                /\ m.series_codes = <<>>
                                /\ lo = PyNone /\ hi = PyNone
                                /\ m.collection_date = PyNone

\* two series keys and two observation times, both out of order in the input
C30_Witness ==
    /\ pure.fn = "create_manifest"
    /\ Len(pure.data) >= 2
    /\ pure.out.series_count = 2
    /\ pure.out.series_codes[1] = pure.data[2].internal_series_code
    /\ pure.out.date_range.min_obs_time # pure.out.date_range.max_obs_time
    /\ pure.data[1].obs_time.kind = "datetime"
    /\ pure.out.date_range.max_obs_time = strftime(pure.data[1].obs_time)


\* ---------------------------------------------------------------- C31
\* the store objects and every other part of the state but the record of
\* the call
readFrame == <<vdata, vmanifest, current, nextV, loadCall, staging, projections, pmanifest>>

\* a step that is a call of one of the three readers
ReadStep == pure' # pure \/ faults' # faults

\* the object the call of a step reads: present or not, and its content
ReadPresent ==
    CASE pure'.fn = "get_current_version" -> current # 0
      [] pure'.fn = "load_manifest"       -> vmanifest[callV'].present
      [] OTHER                            -> pmanifest.present

ReadContent ==
    CASE pure'.fn = "get_current_version" -> [kind |-> "version_id", value |-> current]
      [] pure'.fn = "load_manifest"       -> [kind |-> "manifest", value |-> vmanifest[callV']]
      [] OTHER                            -> [kind |-> "manifest", value |-> pmanifest]

\* C31: not-found is a value, other faults are errors. get_current_version,
\* load_manifest and the load of the projection manifest return None when
\* the object does not exist and the store answers, return the content when
\* it exists, and re-raise any other error of the store; none of the three
\* changes an object of the store
C31_NotFoundIsValue ==
    [][ReadStep =>
          /\ readFrame' = readFrame
          /\ IF faults' # faults
             THEN pure'.out.kind = "ClientError"
             ELSE IF ReadPresent
                  THEN pure'.out = ReadContent
                  ELSE pure'.out = PyNone]_vars

\* the projection manifest was read as absent after a version was published
\* and after another reader had raised
C31_Witness ==
    /\ pure.fn = "_load_manifest"
    /\ pure.out = PyNone
    /\ current # 0
    /\ faults > 0


\* ---------------------------------------------------------------- C32
\* every item of the batch has run to its end
AllFinished == \A i \in 1..Len(queue) : PoolStatus[i] \in {"done", "failed"}

\* a step that leaves the copy or the merge stage
LeavesStage == pc \in {"copy", "merge"} /\ pc' # pc

\* C32: the stages are strictly sequential. For any copy_workers and
\* merge_workers, the copy stage is left only when every copy has finished and
\* the merge stage only when every merge_partition has finished; a worker
\* writes only inside its stage, so no merge starts before the last copy ended
\* and the mover lists and copies only after the last merge ended; after a
\* batch without error the next stage is the merge listing (after the copies)
\* or the mover (after the merges), after one with an error the call raises
C32_StagesSequential ==
    /\ [][LeavesStage => AllFinished]_vars
    /\ [][LeavesStage =>
            IF \E i \in 1..Len(queue) : PoolStatus[i] = "failed"
            THEN pc' = "done" /\ result' = "raised"
            ELSE IF pc = "copy" THEN pc' = "merge_list"
                 ELSE IF callV = 0 THEN pc' = "done" ELSE pc' = "move_list"]_vars
    /\ [](pc \notin {"copy", "merge"} => pool.status = <<>>)
    /\ [][staging' # staging /\ pc \in {"copy", "merge"} => pool.status # <<>> /\ pc' = pc]_vars

\* inside a fold on two workers, both partitions are being merged at once
C32_Witness ==
    /\ pc = "merge"
    /\ callV # 0
    /\ pool.copy_workers = 2
    /\ pool.merge_workers = 2
    /\ Cardinality(Running) = 2


\* ---------------------------------------------------------------- C33
\* C33: fail-fast batches. Once an item of the copy or of the merge batch has
\* failed, no item that has not started is started afterwards
C33_FailFast ==
    [][(\E i \in 1..Len(queue) : PoolStatus[i] = "failed")
          => \A i \in 1..Len(queue) :
                ~(PoolStatus[i] = "pending" /\ pc' = pc /\ pool'.status[i] = "running")]_vars


\* ---------------------------------------------------------------- C34
\* the staging namespace after the items of the batch that succeeded have run
\* one after the other, in the order of the work queue
RECURSIVE SequentialBatch(_, _)
SequentialBatch(stg, i) ==
    IF i > Len(queue) THEN stg
    ELSE IF PoolStatus[i] # "done" THEN SequentialBatch(stg, i + 1)
         ELSE IF pc = "copy"
              THEN SequentialBatch(_copy_s3_object(vdata[callV], stg, queue[i],
                                                   _build_staging_file_path(queue[i])), i + 1)
              ELSE SequentialBatch(merge_partition(stg, projections, queue[i]), i + 1)

\* C34: the work items are independent. For any number of workers and any
\* interleaving, the copy batch and the merge batch leave staging as the
\* sequential execution of the same items does, and two items that run at the
\* same time never work on the same staging key
C34_ItemsIndependent ==
    /\ [][LeavesStage => staging = SequentialBatch(pool.start, 1)]_vars
    /\ [](pc \in {"copy", "merge"}
            => \A i, j \in Running : i # j => queue[i] # queue[j])

\* merge_all_partitions on two workers: both items read before either wrote,
\* and both wrote a merge of a staging and a projection record
C34_Witness ==
    /\ pc = "merge"
    /\ callV = 0
    /\ pool.merge_workers = 2
    /\ pool.status = <<"done", "done">>
    /\ pool.read[1].stg = pool.start
    /\ pool.read[2].stg = pool.start
    /\ \A i \in 1..2 :
          /\ pool.start[_build_staging_file_key(queue[i])].present
          /\ projections[_build_projections_file_key(queue[i])].present
          /\ staging[_build_staging_file_key(queue[i])] #
                pool.start[_build_staging_file_key(queue[i])]


\* ---------------------------------------------------------------- C35
\* the partition objects of a namespace
PartitionObjects(store) == [k \in KeySet |-> store[k]]

\* C35: the mover is the only component that touches projection data. A
\* projection object is created, overwritten or deleted only by a step of
\* move_staging_to_projections (its copies and its rollback); the cleanup of
\* staging, the copy batch and the merge batch leave every projection object
\* as it is and change staging only; a merge_partition that read neither a
\* staging nor a projection record set writes nothing
C35_MoverOnlyWriter ==
    /\ [][PartitionObjects(projections)' # PartitionObjects(projections)
            => pc \in {"move_copy", "move_rollback"}]_vars
    /\ [][(pc \in {"clear", "clear_del", "copy", "merge_list", "merge"})
            => /\ projections' = projections
               /\ UNCHANGED <<vdata, vmanifest, current, pmanifest>>]_vars
    /\ [][\A i \in 1..Len(queue) :
            (/\ pc = "merge"
             /\ PoolStatus[i] = "running"
             /\ pc' = pc
             /\ pool'.status[i] = "done"
             /\ ~pool.read[i].stg[_build_staging_file_key(queue[i])].present
             /\ ~pool.read[i].prj[_build_projections_file_key(queue[i])].present)
            => staging' = staging]_vars

\* inside a fold, a merge_partition that found no record set has ended and
\* staging holds no data.json for its partition, while the other partition's
\* merge has written one
C35_Witness ==
    /\ pc = "merge"
    /\ callV # 0
    /\ pool.status = <<"done", "done">>
    /\ ~pool.read[1].prj[_build_projections_file_key(queue[1])].present
    /\ ~staging[_build_staging_file_key(queue[1])].present
    /\ staging[_build_staging_file_key(queue[2])].present


\* ---------------------------------------------------------------- C40
\* the projection keys the files of version v are published at
FilesOf(v) == IF v \in VersionIds THEN SeqToSet(vmanifest[v].parquet_files) ELSE {}

\* C40: a fold changes only what its version touches. No step of
\* project_version(V) changes the version namespace or the current pointer,
\* and when the call ends, returning or raising, every projection object at
\* a key that is not the key of one of V's files is what it was when the call
\* began
C40_FoldFrame ==
    /\ [][pc # "done" => UNCHANGED <<vdata, vmanifest, current>>]_vars
    /\ [][pc # "done"
            => \A k \in KeySet \ FilesOf(callV) : projections'[k] = hist.preProj[k]]_vars

\* a fold of a version of one partition has ended with its file published,
\* next to the file another version had published in the other partition
C40_Witness ==
    /\ pc = "done"
    /\ result = "True"
    /\ Cardinality(FilesOf(callV)) = 1
    /\ \E k \in FilesOf(callV) : projections[k].present /\ projections[k] # hist.preProj[k]
    /\ \E k \in KeySet \ FilesOf(callV) : projections[k].present


\* ---------------------------------------------------------------- C38
\* C38: projected_versions only grows. Every version whose
\* add_projected_version has returned is listed, whatever calls follow or
\* overlap
C38_NoLostUpdate == [](hist.added \subseteq SeqToSet(pmanifest.projected_versions))


\* ---------------------------------------------------------------- C39
\* C39: the incremental state is advanced only for published data. When
\* transform, load or the projection raises, the last date the state manager
\* holds is the one it held when the cycle began
C39_StateOnlyForPublished ==
    [][(/\ etl.pc \in {"transform", "in_load", "get_current", "in_project"}
        /\ etl'.pc = "finally"
        /\ etl'.exc)
          => etl'.state = etl.state0]_vars


\* ---------------------------------------------------------------- C36
\* the load of the running cycle has returned with version v made current
MadeCurrent(v) == etl.pc = "get_current" /\ loadCall.version_id = v /\ current = v

\* C36: every published version is eventually folded. When the cycles keep
\* running, a version a cycle's load made current is listed in the projection
\* manifest at the latest once a later cycle, which published a newer version,
\* has folded that newer version; this also where every writer holds the lock
C36_EventuallyFolded ==
    \A v \in VersionIds : \A w \in VersionIds :
        v < w => []((MadeCurrent(v) /\ etl.cfg.lock_manager)
                      => [](is_version_projected(pmanifest, w)
                              => <>is_version_projected(pmanifest, v)))


\* ---------------------------------------------------------------- C37
\* execute hands the version it read from the pointer to project_version
HandsToProject == etl.pc = "in_project" /\ pc = "done" /\ pc' = "check"

\* C37: the version a cycle projects is the version it loaded. Where a lock
\* manager is configured (every writer of the dataset holds the lock while it
\* writes), the version handed to project_version is the one the load of the
\* same execute call created, and it is the current one
C37_ProjectsOwnVersion ==
    [][(HandsToProject /\ etl.cfg.lock_manager)
          => /\ callV' = loadCall.version_id
             /\ callV' = current
             /\ etl.lock = "held"]_vars

\* without a lock manager: another writer flipped the pointer after this
\* cycle's load returned, and the cycle projects the other writer's version;
\* and with one, a cycle projecting its own version
C37_Witness ==
    /\ ~etl.cfg.lock_manager
    /\ etl.pc = "in_project"
    /\ pc = "check"
    /\ callV # loadCall.version_id
    /\ loadCall.version_id # 0

====
